---- MODULE Spec2Model ----
\* Model of the ratings worker (worker/index.js, the batched version with
\* verification ratings): the staleness policy, the title fallback chain of
\* processMovieLogic and the batch handler handleBatchLookup over the D1
\* table `movies`.
\*
\* Conventions
\*   - Time is counted in minutes (Date.getTime() / 60000); the TTL table is
\*     scaled accordingly.
\*   - Ratings have one decimal and are counted in tenths (7.0 is 70); the
\*     comparison with 0.2 is the one doubles give (AbsDiffAtLeastThreshold).
\*   - A JavaScript string that the code takes apart (a title) is a sequence
\*     of one-character strings; "" / undefined / null is the empty sequence.
\*   - A string the code only parses as a date or a number is a tagged
\*     record that says what the parse yields.
EXTENDS Integers, Sequences, FiniteSets, TLC

\* ------------------------------------------------------------------------
\* Bounds of the model
\* ------------------------------------------------------------------------
MaxBatches ==
    2

MaxItems ==
    2

MaxTicks ==
    1

TickStep ==
    2

Now0 ==
    100000

\* ------------------------------------------------------------------------
\* Program constants
\* ------------------------------------------------------------------------
TTL_RECENT ==
    60

TTL_MEDIUM ==
    1440

TTL_STABLE ==
    43200

MinutesPerDay ==
    1440

\* Math.abs(a - b) >= 0.2, in tenths
MismatchTenths ==
    2

\* reverseTitle.length > 2, truncatedTitle.length > 2
MinSplitLen ==
    2

\* ------------------------------------------------------------------------
\* Text
\* ------------------------------------------------------------------------
Uppers ==
    <<"A","B","C","D","E","F","G","H","I","J","K","L","M",
      "N","O","P","Q","R","S","T","U","V","W","X","Y","Z">>

Lowers ==
    <<"a","b","c","d","e","f","g","h","i","j","k","l","m",
      "n","o","p","q","r","s","t","u","v","w","x","y","z">>

\* one character, lower-cased (the /i flag)
LowerChar(c) ==
    IF \E k \in 1..26 : Uppers[k] = c
    THEN Lowers[CHOOSE k \in 1..26 : Uppers[k] = c]
    ELSE c

ToLower(s) ==
    [k \in 1..Len(s) |-> LowerChar(s[k])]

\* \s
IsSpace(c) ==
    c = " "

\* number of leading / trailing whitespace characters of s
RECURSIVE LeadingSpaces(_)
LeadingSpaces(s) ==
    IF s = <<>> \/ ~IsSpace(Head(s)) THEN 0 ELSE 1 + LeadingSpaces(Tail(s))

RECURSIVE TrailingSpaces(_)
TrailingSpaces(s) ==
    IF s = <<>> \/ ~IsSpace(s[Len(s)]) THEN 0
    ELSE 1 + TrailingSpaces(SubSeq(s, 1, Len(s) - 1))

\* String.prototype.trim
Trim(s) ==
    IF LeadingSpaces(s) = Len(s) THEN <<>>
    ELSE SubSeq(s, 1 + LeadingSpaces(s), Len(s) - TrailingSpaces(s))

\* String.prototype.substring(from) and substring(0, to), 0-based as in JS
SubstringFrom(s, from) ==
    SubSeq(s, from + 1, Len(s))

SubstringTo(s, to) ==
    SubSeq(s, 1, to)

EndsWith(s, suffix) ==
    /\ Len(s) >= Len(suffix)
    /\ SubSeq(s, Len(s) - Len(suffix) + 1, Len(s)) = suffix

S_DirectorsCut ==
    <<"d","i","r","e","c","t","o","r","'","s"," ","c","u","t">>

S_And ==
    <<" ","a","n","d"," ">>

\* directorsCutRegex.test(title):  /\s*Director's Cut$/i
DirectorsCutTest(s) ==
    EndsWith(ToLower(s), S_DirectorsCut)

\* title.replace(directorsCutRegex, ''): the leftmost match takes the
\* whitespace run in front of the suffix with it
DirectorsCutReplace(s) ==
    IF ~DirectorsCutTest(s) THEN s
    ELSE LET head == SubSeq(s, 1, Len(s) - Len(S_DirectorsCut))
         IN  SubSeq(head, 1, Len(head) - TrailingSpaces(head))

\* 1-based position of the last occurrence of character c in s, 0 if none
RECURSIVE LastIndexOf(_, _)
LastIndexOf(s, c) ==
    IF s = <<>> THEN 0
    ELSE IF s[Len(s)] = c THEN Len(s)
    ELSE LastIndexOf(SubSeq(s, 1, Len(s) - 1), c)

\* 1-based position of the first occurrence of c in s at or after from,
\* 0 if none
RECURSIVE IndexOfFrom(_, _, _)
IndexOfFrom(s, c, from) ==
    IF from > Len(s) THEN 0
    ELSE IF s[from] = c THEN from
    ELSE IndexOfFrom(s, c, from + 1)

\* title.replace(/\s*(?:\([^)]*\)|\[[^\]]*\])\s*$/, ''): with the trailing
\* whitespace set aside the string must end in the closing character; the
\* group opens at the leftmost opening character that has no closing
\* character between it and the end, and the match takes the whitespace in
\* front of the group with it
GroupReplace(s, open, close) ==
    LET body  == SubSeq(s, 1, Len(s) - TrailingSpaces(s))
        inner == SubSeq(body, 1, Len(body) - 1)
        start == IndexOfFrom(inner, open, LastIndexOf(inner, close) + 1)
        head  == SubSeq(body, 1, start - 1)
    IN  IF body = <<>> \/ body[Len(body)] # close \/ start = 0 THEN s
        ELSE SubSeq(head, 1, Len(head) - TrailingSpaces(head))

TrailingGroupReplace(s) ==
    LET body == SubSeq(s, 1, Len(s) - TrailingSpaces(s))
    IN  IF body = <<>> THEN s
        ELSE IF body[Len(body)] = ")" THEN GroupReplace(s, "(", ")")
        ELSE IF body[Len(body)] = "]" THEN GroupReplace(s, "[", "]")
        ELSE s

\* the pre-processing with the two replacements in the other order
NormalizeTitle_GroupFirst(title) ==
    LET t1 == IF Trim(TrailingGroupReplace(title)) # <<>>
              THEN Trim(TrailingGroupReplace(title))
              ELSE title
    IN  IF DirectorsCutTest(t1) /\ Len(Trim(DirectorsCutReplace(t1))) > 0
        THEN Trim(DirectorsCutReplace(t1))
        ELSE t1

\* the pre-processing of processMovieLogic
NormalizeTitle(title) ==
    LET t1 == IF DirectorsCutTest(title)
                 /\ Len(Trim(DirectorsCutReplace(title))) > 0
              THEN Trim(DirectorsCutReplace(title))
              ELSE title
        t2 == Trim(TrailingGroupReplace(t1))
    IN  IF t2 # <<>> THEN t2 ELSE t1

\* title.includes('&')
Includes(s, c) ==
    \E k \in 1..Len(s) : s[k] = c

\* .replace(/&/g, ' and ')
RECURSIVE ReplaceAmp(_)
ReplaceAmp(s) ==
    IF s = <<>> THEN <<>>
    ELSE IF Head(s) = "&" THEN S_And \o ReplaceAmp(Tail(s))
    ELSE <<Head(s)>> \o ReplaceAmp(Tail(s))

\* .replace(/\s+/g, ' ')
RECURSIVE CollapseSpaces(_)
CollapseSpaces(s) ==
    IF s = <<>> THEN <<>>
    ELSE IF IsSpace(Head(s))
    THEN <<" ">> \o CollapseSpaces(SubstringFrom(s, LeadingSpaces(s)))
    ELSE <<Head(s)>> \o CollapseSpaces(Tail(s))

\* altTitle without the whitespace collapse
AmpersandTitle_NoCollapse(title) ==
    Trim(ReplaceAmp(title))

\* altTitle
AmpersandTitle(title) ==
    Trim(CollapseSpaces(ReplaceAmp(title)))

IsSpecialChar(c) ==
    c \in {"-", ":", "&"}

\* title.match(/[-:&]/): 0-based index of the first match, -1 for null
RECURSIVE SpecialCharIndexFrom(_, _)
SpecialCharIndexFrom(s, k) ==
    IF k > Len(s) THEN 0 - 1
    ELSE IF IsSpecialChar(s[k]) THEN k - 1
    ELSE SpecialCharIndexFrom(s, k + 1)

SpecialCharIndex(title) ==
    SpecialCharIndexFrom(title, 1)

\* reverseTitle that keeps the text in front of the character
ReverseTitle_KeepLeft(title) ==
    Trim(SubstringTo(title, SpecialCharIndex(title)))

\* reverseTitle (Keep Right)
ReverseTitle(title) ==
    Trim(SubstringFrom(title, SpecialCharIndex(title) + 1))

\* truncatedTitle (Keep Left)
TruncatedTitle(title) ==
    Trim(SubstringTo(title, SpecialCharIndex(title)))

\* ------------------------------------------------------------------------
\* Values
\* ------------------------------------------------------------------------
\* a date string: an ISO date-time that parses to minute t, the empty
\* string, or a string that new Date() does not parse (getTime() is NaN)
Iso(t) ==
    [kind |-> "iso", t |-> t]

EmptyDate ==
    [kind |-> "empty", t |-> 0]

BadDate ==
    [kind |-> "bad", t |-> 0]

\* the text 'N/A' where a date is expected
NADate ==
    [kind |-> "na", t |-> 0]

\* a numeric field of an OMDb payload: a number v, 'N/A', absent (or ''),
\* or some other text that parseFloat / parseInt turn into NaN
Num(v) ==
    [kind |-> "num", v |-> v]

NA ==
    [kind |-> "na", v |-> 0]

Absent ==
    [kind |-> "absent", v |-> 0]

NotNumeric ==
    [kind |-> "nan", v |-> 0]

\* !x for such a field: only the absent / empty string is falsy
FieldFalsy(f) ==
    f.kind = "absent"

IsNaN(f) ==
    f.kind # "num"

\* parseFloat(x) || dflt   and   parseInt(x) || dflt
NumberOr(f, dflt) ==
    IF IsNaN(f) \/ f.v = 0 THEN dflt ELSE f.v

\* null / undefined where an object is expected
Null ==
    [null |-> TRUE]

\* a row of the table movies (worker/schema.sql)
Row(href, id, title, year, release, rating, rt, votes, updated) ==
    [prime_href |-> href, imdb_id |-> id, title |-> title, year |-> year,
     release_date |-> release, rating |-> rating, rt_rating |-> rt,
     votes |-> votes, updated_at |-> updated]

\* an OMDb payload with Response === 'True'
Payload(id, type, rating, year, released, votes, rt) ==
    [imdbID |-> id, Type |-> type, imdbRating |-> rating, Year |-> year,
     Released |-> released, imdbVotes |-> votes, rt |-> rt]

\* one element of body.movies
Movie(href, title, entityType, vr) ==
    [href |-> href, title |-> title, entityType |-> entityType,
     verificationRating |-> vr]

\* the objects processMovieLogic returns
DataResult(href, data, source, debug) ==
    [href |-> href, data |-> data, source |-> source, error |-> "",
     debug |-> debug]

\* an error object whose error is undefined (JSON.stringify drops the key)
ErrorResult_NoReason(href, msg) ==
    [href |-> href, data |-> Null, source |-> "", error |-> "",
     debug |-> ""]

ErrorResult(href, msg) ==
    [href |-> href, data |-> Null, source |-> "", error |-> msg,
     debug |-> ""]

\* ------------------------------------------------------------------------
\* Pure functions of the worker
\* ------------------------------------------------------------------------
\* isDataStale with >= where the code compares with >
isDataStale_InclusiveTTL(releaseDateStr, updatedAtStr, t) ==
    IF releaseDateStr.kind = "empty" THEN TRUE
    ELSE IF updatedAtStr.kind # "iso" \/ releaseDateStr.kind # "iso" THEN TRUE
    ELSE LET sinceRelease == t - releaseDateStr.t
             timeSinceUpdate == t - updatedAtStr.t
         IN  IF sinceRelease <= 7 * MinutesPerDay
             THEN timeSinceUpdate >= TTL_RECENT
             ELSE IF sinceRelease <= 14 * MinutesPerDay
             THEN timeSinceUpdate >= TTL_MEDIUM
             ELSE timeSinceUpdate >= TTL_STABLE

\* isDataStale without the two guards on the release date: a NaN release
\* fails both tier comparisons and ends in the 30-day tier
isDataStale_NoReleaseCheck(releaseDateStr, updatedAtStr, t) ==
    IF updatedAtStr.kind # "iso" THEN TRUE
    ELSE IF releaseDateStr.kind # "iso" THEN t - updatedAtStr.t > TTL_STABLE
    ELSE LET sinceRelease == t - releaseDateStr.t
             timeSinceUpdate == t - updatedAtStr.t
         IN  IF sinceRelease <= 7 * MinutesPerDay
             THEN timeSinceUpdate > TTL_RECENT
             ELSE IF sinceRelease <= 14 * MinutesPerDay
             THEN timeSinceUpdate > TTL_MEDIUM
             ELSE timeSinceUpdate > TTL_STABLE

\* isDataStale, with Date.now() as the parameter t
isDataStale(releaseDateStr, updatedAtStr, t) ==
    IF releaseDateStr.kind = "empty" THEN TRUE
    ELSE IF updatedAtStr.kind # "iso" \/ releaseDateStr.kind # "iso" THEN TRUE
    ELSE LET sinceRelease == t - releaseDateStr.t
             timeSinceUpdate == t - updatedAtStr.t
         IN  IF sinceRelease <= 7 * MinutesPerDay
             THEN timeSinceUpdate > TTL_RECENT
             ELSE IF sinceRelease <= 14 * MinutesPerDay
             THEN timeSinceUpdate > TTL_MEDIUM
             ELSE timeSinceUpdate > TTL_STABLE

\* isValidResult that rejects a payload without a Type when an entity type
\* is given
isValidResult_TypeRequired(omdbResult, primeEntityType) ==
    IF FieldFalsy(omdbResult.imdbRating) \/ omdbResult.imdbRating.kind = "na"
    THEN FALSE
    ELSE IF primeEntityType # ""
    THEN omdbResult.Type = IF primeEntityType = "Movie" THEN "movie"
                           ELSE "series"
    ELSE TRUE

\* isValidResult
isValidResult(omdbResult, primeEntityType) ==
    IF FieldFalsy(omdbResult.imdbRating) \/ omdbResult.imdbRating.kind = "na"
    THEN FALSE
    ELSE IF primeEntityType # ""
    THEN LET omdbType == omdbResult.Type
             expectedOmdbType ==
                 IF primeEntityType = "Movie" THEN "movie" ELSE "series"
         IN  ~(omdbType # "" /\ omdbType # expectedOmdbType)
    ELSE TRUE

\* Math.abs(a - b) >= 0.2 for two ratings of one decimal, a and b in tenths,
\* as IEEE-754 doubles compute it: a difference of one tenth is below 0.2, of
\* three tenths or more is above, and of exactly two tenths is below 0.2 for
\* the pairs (lo, lo + 2) with lo in RoundsBelow (7.6 - 7.4 is
\* 0.1999999999999993) and at least 0.2 for the others (7.2 - 7.0 is
\* 0.20000000000000018)
RoundsBelow ==
    {1, 4, 5, 8, 10, 11, 12, 13, 15, 16, 17, 18, 21, 22, 26, 27, 31, 32, 36,
     37, 39, 44, 49, 54, 59, 64, 69, 74, 79, 80, 83, 84, 85, 88, 89, 90, 93,
     94, 95, 98}

AbsDiffAtLeastThreshold(a, b) ==
    LET d  == IF a < b THEN b - a ELSE a - b
        lo == IF a < b THEN a ELSE b
    IN  \/ d > MismatchTenths
        \/ d = MismatchTenths /\ lo \notin RoundsBelow

\* verificationRating && Math.abs(parseFloat(x) - parseFloat(verificationRating)) >= 0.2
\* (a NaN on either side makes the comparison false)
Mismatch(ratingField, vr) ==
    /\ ~FieldFalsy(vr)
    /\ ~IsNaN(ratingField)
    /\ ~IsNaN(vr)
    /\ AbsDiffAtLeastThreshold(ratingField.v, vr.v)

\* parseReleaseDate: the record says whether toISOString() throws
parseReleaseDate(dateStr, t) ==
    IF dateStr.kind \in {"empty", "na"} THEN [throws |-> FALSE, value |-> Iso(t)]
    ELSE IF dateStr.kind = "iso" THEN [throws |-> FALSE, value |-> dateStr]
    ELSE [throws |-> TRUE, value |-> dateStr]

\* ------------------------------------------------------------------------
\* The provider (OMDb) as seen by the worker
\* ------------------------------------------------------------------------
\* one HTTP request to OMDb: ?t=title, ?s=title or ?i=id
Req(kind, title, id) ==
    [kind |-> kind, title |-> title, id |-> id]

\* what one fetch + res.json() gives: it throws, it gives a body whose
\* Response is not 'True', or it gives a payload
Throws ==
    [kind |-> "throw", data |-> Null]

NotFound ==
    [kind |-> "none", data |-> Null]

Hit(payload) ==
    [kind |-> "hit", data |-> payload]

FetchAnswers(payloads) ==
    {Throws, NotFound} \cup {Hit(pl) : pl \in payloads}

\* what the two fetches of fetchOMDbSearch give: the answer to ?s= (a hit
\* carries the imdbID of Search[0]) and the answer to the detail fetch
SearchAnswers(payloads) ==
    {[list |-> "throw", id |-> "", detail |-> NotFound],
     [list |-> "none", id |-> "", detail |-> NotFound]}
    \cup UNION {{[list |-> "hit", id |-> pl.imdbID, detail |-> a] :
                    a \in FetchAnswers({pl})} : pl \in payloads}

\* fetchOMDbTitle and fetchOMDbById: data.Response === 'True' ? data : null
fetchOMDb(ans) ==
    [throws |-> ans.kind = "throw",
     value  |-> IF ans.kind = "hit" THEN ans.data ELSE Null]

\* fetchOMDbSearch that fetches the detail a second time when the first
\* detail response is not successful
fetchOMDbSearch_RetryDetail(ans) ==
    IF ans.list = "throw" THEN [throws |-> TRUE, value |-> Null, reqs |-> <<>>]
    ELSE IF ans.list = "none" THEN [throws |-> FALSE, value |-> Null, reqs |-> <<>>]
    ELSE [throws |-> ans.detail.kind = "throw",
          value  |-> IF ans.detail.kind = "hit" THEN ans.detail.data ELSE Null,
          reqs   |-> IF ans.detail.kind = "none"
                     THEN <<Req("i", <<>>, ans.id), Req("i", <<>>, ans.id)>>
                     ELSE <<Req("i", <<>>, ans.id)>>]

\* fetchOMDbSearch after its first fetch was issued: the detail request it
\* adds, and what it returns
fetchOMDbSearch(ans) ==
    IF ans.list = "throw" THEN [throws |-> TRUE, value |-> Null, reqs |-> <<>>]
    ELSE IF ans.list = "none" THEN [throws |-> FALSE, value |-> Null, reqs |-> <<>>]
    ELSE [throws |-> ans.detail.kind = "throw",
          value  |-> IF ans.detail.kind = "hit" THEN ans.detail.data ELSE Null,
          reqs   |-> <<Req("i", <<>>, ans.id)>>]

\* ------------------------------------------------------------------------
\* processMovieLogic, cut at its awaits.  The state of one call:
\*   pc            the await it is suspended at ("byId", "title", "amp",
\*                 "search", "split") or "done"
\*   title         the local title
\*   omdbResult, needsFallback   the locals of that name
\*   reqs          the OMDb requests the call has issued so far
\*   answers       what each completed await gave the call: the await, whether
\*                 it threw, and the value it returned
\*   result        the returned object once pc = "done"
\*   at            history: Date.now() when the call started
\* ------------------------------------------------------------------------
Finish(p, result) ==
    [p EXCEPT !.pc = "done", !.result = result]

Await(p, pc, req) ==
    [p EXCEPT !.pc = pc, !.reqs = Append(p.reqs, req)]

\* Build that takes the title of the request that found the payload
Build_MatchedTitle(p, movie, t) ==
    IF p.omdbResult = Null THEN Finish(p, ErrorResult(movie.href, "OMDb Not Found"))
    ELSE LET o    == p.omdbResult
             rel  == parseReleaseDate(o.Released, t)
             asked == {k \in 1..Len(p.reqs) : p.reqs[k].kind # "i"}
             last == CHOOSE k \in asked : \A j \in asked : j <= k
         IN  IF rel.throws
             THEN Finish(p, ErrorResult(movie.href, "Invalid time value"))
             ELSE Finish(p, DataResult(movie.href,
                     Row(movie.href, o.imdbID, p.reqs[last].title,
                         NumberOr(o.Year, 0), rel.value,
                         NumberOr(o.imdbRating, 0), o.rt,
                         NumberOr(o.imdbVotes, 0), Iso(t)),
                     "api", ""))

\* lines 359-375: the record built from the winning payload
Build(p, movie, t) ==
    IF p.omdbResult = Null THEN Finish(p, ErrorResult(movie.href, "OMDb Not Found"))
    ELSE LET o   == p.omdbResult
             rel == parseReleaseDate(o.Released, t)
         IN  IF rel.throws
             THEN Finish(p, ErrorResult(movie.href, "Invalid time value"))
             ELSE Finish(p, DataResult(movie.href,
                     Row(movie.href, o.imdbID, p.title, NumberOr(o.Year, 0),
                         rel.value, NumberOr(o.imdbRating, 0), o.rt,
                         NumberOr(o.imdbVotes, 0), Iso(t)),
                     "api", ""))

\* Step 4 without the two length tests
Step4_NoLengthTest(p, movie, t) ==
    LET vr   == movie.verificationRating
        cond == IF p.omdbResult = Null THEN TRUE
                ELSE Mismatch(p.omdbResult.imdbRating, vr)
    IN  IF cond /\ SpecialCharIndex(p.title) >= 0
        THEN IF ~FieldFalsy(vr)
             THEN Await(p, "split", Req("s", ReverseTitle(p.title), ""))
             ELSE Await(p, "split", Req("s", TruncatedTitle(p.title), ""))
        ELSE Build(p, movie, t)

\* lines 334-357: Step 4, special character truncation
Step4(p, movie, t) ==
    LET vr   == movie.verificationRating
        cond == IF p.omdbResult = Null THEN TRUE
                ELSE Mismatch(p.omdbResult.imdbRating, vr)
        reverseTitle   == ReverseTitle(p.title)
        truncatedTitle == TruncatedTitle(p.title)
    IN  IF cond /\ SpecialCharIndex(p.title) >= 0
        THEN IF ~FieldFalsy(vr)
             THEN IF Len(reverseTitle) > MinSplitLen
                  THEN Await(p, "split", Req("s", reverseTitle, ""))
                  ELSE Build(p, movie, t)
             ELSE IF Len(truncatedTitle) > MinSplitLen
                  THEN Await(p, "split", Req("s", truncatedTitle, ""))
                  ELSE Build(p, movie, t)
        ELSE Build(p, movie, t)

\* lines 329-332: Step 3, search fallback
Step3(p, movie, t) ==
    IF p.omdbResult = Null /\ p.needsFallback
    THEN Await(p, "search", Req("s", p.title, ""))
    ELSE Step4(p, movie, t)

\* lines 320-327: Step 2, ampersand replacement
Step2(p, movie, t) ==
    IF p.needsFallback /\ Includes(p.title, "&")
    THEN Await(p, "amp", Req("t", AmpersandTitle(p.title), ""))
    ELSE Step3(p, movie, t)

\* lines 297-318: the primary lookup has answered
OnTitle(p, movie, ans, t) ==
    LET r      == fetchOMDb(ans)
        vr     == movie.verificationRating
        valid  == IF r.value # Null /\ isValidResult(r.value, movie.entityType)
                  THEN r.value ELSE Null
        need   == IF ~FieldFalsy(vr)
                  THEN IF valid = Null THEN TRUE
                       ELSE \/ FieldFalsy(valid.imdbRating)
                            \/ valid.imdbRating.kind = "na"
                            \/ Mismatch(valid.imdbRating, vr)
                  ELSE valid = Null
        kept   == IF ~FieldFalsy(vr) /\ need THEN Null ELSE valid
    IN  IF r.throws THEN Finish(p, ErrorResult(movie.href, "fetch failed"))
        ELSE Step2([p EXCEPT !.omdbResult = kept, !.needsFallback = need],
                   movie, t)

\* lines 324-325: the ampersand retry has answered
OnAmp(p, movie, ans, t) ==
    LET r     == fetchOMDb(ans)
        valid == IF r.value # Null /\ isValidResult(r.value, movie.entityType)
                 THEN r.value ELSE Null
    IN  IF r.throws THEN Finish(p, ErrorResult(movie.href, "fetch failed"))
        ELSE Step3([p EXCEPT !.omdbResult = valid], movie, t)

\* OnSearch that searches the title once more when the search found nothing
OnSearch_RetryOnce(p, movie, ans, t) ==
    LET r == fetchOMDbSearch(ans)
        q == [p EXCEPT !.reqs = p.reqs \o r.reqs]
        n == Cardinality({k \in 1..Len(p.answers) :
                             p.answers[k].step = "search"})
    IN  IF r.throws THEN Finish(q, ErrorResult(movie.href, "fetch failed"))
        ELSE IF r.value = Null /\ n = 1
        THEN Await(q, "search", Req("s", p.title, ""))
        ELSE Step4([q EXCEPT !.omdbResult = r.value], movie, t)

\* line 331: fetchOMDbSearch(title) has answered
OnSearch(p, movie, ans, t) ==
    LET r == fetchOMDbSearch(ans)
        q == [p EXCEPT !.reqs = p.reqs \o r.reqs]
    IN  IF r.throws THEN Finish(q, ErrorResult(movie.href, "fetch failed"))
        ELSE Step4([q EXCEPT !.omdbResult = r.value], movie, t)

\* lines 345 / 353: fetchOMDbSearch(split title) has answered
OnSplit(p, movie, ans, t) ==
    LET r == fetchOMDbSearch(ans)
        q == [p EXCEPT !.reqs = p.reqs \o r.reqs]
    IN  IF r.throws THEN Finish(q, ErrorResult(movie.href, "fetch failed"))
        ELSE Build([q EXCEPT !.omdbResult = r.value], movie, t)

\* OnById that goes on to the title chain when the refresh fails
OnById_TitleFallback(p, movie, cached, ans, t) ==
    LET r     == fetchOMDb(ans)
        stale == Step3([p EXCEPT !.title = cached.title, !.needsFallback = TRUE],
                       movie, t)
    IN  IF r.throws \/ r.value = Null THEN stale
        ELSE LET refreshed == r.value
                 rel       == parseReleaseDate(refreshed.Released, t)
             IN  IF FieldFalsy(refreshed.imdbRating)
                    \/ refreshed.imdbRating.kind = "na"
                    \/ rel.throws
                 THEN stale
                 ELSE Finish(p, DataResult(movie.href,
                         Row(movie.href, refreshed.imdbID, cached.title,
                             NumberOr(refreshed.Year, cached.year),
                             rel.value,
                             NumberOr(refreshed.imdbRating, cached.rating),
                             IF refreshed.rt # "" THEN refreshed.rt
                             ELSE cached.rt_rating,
                             NumberOr(refreshed.imdbVotes, cached.votes),
                             Iso(t)),
                         "api-refresh", ""))

\* lines 253-274: fetchOMDbById has answered (TTL refresh)
OnById(p, movie, cached, ans, t) ==
    LET r     == fetchOMDb(ans)
        stale == Finish(p, DataResult(movie.href, cached, "cache-stale", ""))
    IN  IF r.throws \/ r.value = Null THEN stale
        ELSE LET refreshed == r.value
                 rel       == parseReleaseDate(refreshed.Released, t)
             IN  IF FieldFalsy(refreshed.imdbRating)
                    \/ refreshed.imdbRating.kind = "na"
                    \/ rel.throws
                 THEN stale
                 ELSE Finish(p, DataResult(movie.href,
                         Row(movie.href, refreshed.imdbID, cached.title,
                             NumberOr(refreshed.Year, cached.year),
                             rel.value,
                             NumberOr(refreshed.imdbRating, cached.rating),
                             IF refreshed.rt # "" THEN refreshed.rt
                             ELSE cached.rt_rating,
                             NumberOr(refreshed.imdbVotes, cached.votes),
                             Iso(t)),
                         "api-refresh", ""))

\* TitleChain that does not fall back on the title of the cached row
TitleChain_NoCachedTitle(p, movie, cached) ==
    IF movie.title = <<>>
    THEN Finish(p, ErrorResult(movie.href, "OMDb Lookup skipped: Missing title"))
    ELSE Await([p EXCEPT !.title = NormalizeTitle(movie.title)], "title",
               Req("t", NormalizeTitle(movie.title), ""))

\* lines 278-297: no cache short-circuit; pick the title, clean it and issue
\* the primary lookup
TitleChain(p, movie, cached) ==
    LET title == IF movie.title = <<>> /\ cached # Null THEN cached.title
                 ELSE movie.title
    IN  IF cached # Null /\ movie.title = <<>> /\ cached.title = <<>>
        THEN Finish(p, DataResult(movie.href, cached, "cache-stale", ""))
        ELSE IF title = <<>>
        THEN Finish(p, ErrorResult(movie.href, "OMDb Lookup skipped: Missing title"))
        ELSE Await([p EXCEPT !.title = NormalizeTitle(title)], "title",
                   Req("t", NormalizeTitle(title), ""))

\* processMovieLogic that stamps a cache hit with the time of the call
processMovieLogic_RestampedHit(movie, cached, t) ==
    LET p  == [pc |-> "start", title |-> movie.title, omdbResult |-> Null,
               needsFallback |-> FALSE, reqs |-> <<>>, answers |-> <<>>,
               result |-> Null, at |-> t]
        vr == movie.verificationRating
    IN  IF movie.href = "" THEN Finish(p, ErrorResult(movie.href, "Missing href"))
        ELSE IF cached = Null THEN TitleChain(p, movie, cached)
        ELSE IF ~isDataStale(cached.release_date, cached.updated_at, t)
        THEN IF ~FieldFalsy(vr)
             THEN IF Mismatch(Num(cached.rating), vr)
                  THEN TitleChain(p, movie, cached)
                  ELSE Finish(p, DataResult(movie.href, cached, "cache",
                                            "verification-pass"))
             ELSE Finish(p, DataResult(movie.href,
                                       [cached EXCEPT !.updated_at = Iso(t)],
                                       "cache", ""))
        ELSE IF cached.imdb_id # ""
        THEN Await(p, "byId", Req("i", <<>>, cached.imdb_id))
        ELSE TitleChain(p, movie, cached)

\* processMovieLogic that refreshes every stale row by id, stored id or not
processMovieLogic_ByIdAlways(movie, cached, t) ==
    LET p  == [pc |-> "start", title |-> movie.title, omdbResult |-> Null,
               needsFallback |-> FALSE, reqs |-> <<>>, answers |-> <<>>,
               result |-> Null, at |-> t]
        vr == movie.verificationRating
    IN  IF movie.href = "" THEN Finish(p, ErrorResult(movie.href, "Missing href"))
        ELSE IF cached = Null THEN TitleChain(p, movie, cached)
        ELSE IF ~isDataStale(cached.release_date, cached.updated_at, t)
        THEN IF ~FieldFalsy(vr)
             THEN IF Mismatch(Num(cached.rating), vr)
                  THEN TitleChain(p, movie, cached)
                  ELSE Finish(p, DataResult(movie.href, cached, "cache",
                                            "verification-pass"))
             ELSE Finish(p, DataResult(movie.href, cached, "cache", ""))
        ELSE Await(p, "byId", Req("i", <<>>, cached.imdb_id))

\* lines 229-297: processMovieLogic from its call to its first await
processMovieLogic(movie, cached, t) ==
    LET p  == [pc |-> "start", title |-> movie.title, omdbResult |-> Null,
               needsFallback |-> FALSE, reqs |-> <<>>, answers |-> <<>>,
               result |-> Null, at |-> t]
        vr == movie.verificationRating
    IN  IF movie.href = "" THEN Finish(p, ErrorResult(movie.href, "Missing href"))
        ELSE IF cached = Null THEN TitleChain(p, movie, cached)
        ELSE IF ~isDataStale(cached.release_date, cached.updated_at, t)
        THEN IF ~FieldFalsy(vr)
             THEN IF Mismatch(Num(cached.rating), vr)
                  THEN TitleChain(p, movie, cached)
                  ELSE Finish(p, DataResult(movie.href, cached, "cache",
                                            "verification-pass"))
             ELSE Finish(p, DataResult(movie.href, cached, "cache", ""))
        ELSE IF cached.imdb_id # ""
        THEN Await(p, "byId", Req("i", <<>>, cached.imdb_id))
        ELSE TitleChain(p, movie, cached)

\* what the await the call is suspended at gives it
Outcome(p, ans) ==
    LET r == IF p.pc \in {"search", "split"} THEN fetchOMDbSearch(ans)
             ELSE fetchOMDb(ans)
    IN  [step |-> p.pc, throws |-> r.throws, value |-> r.value]

\* the continuation of a suspended call when its await completes
Resume(p, movie, cached, ans, t) ==
    LET q == [p EXCEPT !.answers = Append(p.answers, Outcome(p, ans))]
    IN  CASE p.pc = "byId"   -> OnById(q, movie, cached, ans, t)
          [] p.pc = "title"  -> OnTitle(q, movie, ans, t)
          [] p.pc = "amp"    -> OnAmp(q, movie, ans, t)
          [] p.pc = "search" -> OnSearch(q, movie, ans, t)
          [] p.pc = "split"  -> OnSplit(q, movie, ans, t)

\* ------------------------------------------------------------------------
\* State
\* ------------------------------------------------------------------------
VARIABLES
    store,       \* the table movies: prime_href -> row, Null where no row
    now,         \* the clock, Date.now() in minutes
    ticks,       \* how often the clock has advanced
    batches,     \* how many /batch requests have been answered
    pc,          \* handleBatchLookup: "idle", "resolving", "responded"
    movies,      \* body.movies of the request being handled
    cachedMap,   \* the rows read at the start of the batch
    proc,        \* per element of movies, its processMovieLogic call
    updates,     \* the local array updates
    statements,  \* the statements handed to env.DB.batch
    dbReads,     \* SELECTs issued for the request being handled
    dbWrites,    \* env.DB.batch calls issued for the request being handled
    response,    \* the Response returned: status and body
    lastHit,     \* history: per key, the last plain cache hit answered
    \* the content script (src/content-script.js, lines 658-1407)
    isDetailPage,        \* window.location is a detail page
    currentThreshold,    \* state.currentThreshold, in tenths
    currentRtThreshold,  \* state.currentRtThreshold, in percent
    processedItems,      \* state.processedItems: set of hrefs
    sessionCache,        \* state.sessionCache: href -> data, Null where none
    pendingContainers,   \* state.pendingContainers: href -> containers, {} where none
    processedAttr,       \* per container, its data-imdb-processed attribute
    filterAttr,          \* per container, data-pv-hidden of its closest li
    badged,              \* per container, its target holds a .badge-container
    sentMessages,        \* the BATCH_LOOKUP messages sent so far, in order
    answered,            \* the messages whose callback has been invoked
    frames,              \* callbacks handed to requestAnimationFrame
    \* the background service worker (src/worker/schema.sql, lines 53-147)
    calls                \* the handleBatchLookup calls of the service worker

workerVars ==
    <<store, now, ticks, batches, pc, movies, cachedMap, proc, updates,
      statements, dbReads, dbWrites, response, lastHit>>

pageVars ==
    <<isDetailPage, currentThreshold, currentRtThreshold, processedItems,
      sessionCache, pendingContainers, processedAttr, filterAttr, badged,
      sentMessages, answered, frames>>

extensionVars ==
    <<pageVars, calls>>

vars ==
    <<workerVars, extensionVars>>

Hrefs ==
    {"h1", "h2"}

NoResponse ==
    [status |-> 0, results |-> <<>>, error |-> ""]

\* jsonResponse({ results }) and jsonResponse({ error }, status)
OkResponse(results) ==
    [status |-> 200, results |-> results, error |-> ""]

ErrorResponse(msg, status) ==
    [status |-> status, results |-> <<>>, error |-> msg]

\* a request body after request.json(): movies is an array, is absent, is
\* something that is not an array, or the body is not JSON at all
ArrayBody(ms) ==
    [kind |-> "array", movies |-> ms]

AbsentBody ==
    [kind |-> "absent", movies |-> <<>>]

NotArrayBody ==
    [kind |-> "notArray", movies |-> <<>>]

BadJsonBody ==
    [kind |-> "badJson", movies |-> <<>>]

\* cachedMap.get(movie.href)
Cached(map, href) ==
    IF href \in DOMAIN map THEN map[href] ELSE Null

\* INSERT ... ON CONFLICT(prime_href) DO UPDATE SET imdb_id, rating,
\* rt_rating, votes, updated_at
Upsert(old, data) ==
    IF old = Null THEN data
    ELSE [old EXCEPT !.imdb_id = data.imdb_id, !.rating = data.rating,
                     !.rt_rating = data.rt_rating, !.votes = data.votes,
                     !.updated_at = data.updated_at]

\* env.DB.batch(statements): the statements applied in order
RECURSIVE ApplyBatch(_, _)
ApplyBatch(st, stmts) ==
    IF stmts = <<>> THEN st
    ELSE LET d == Head(stmts)
         IN  ApplyBatch([st EXCEPT ![d.prime_href] = Upsert(st[d.prime_href], d)],
                        Tail(stmts))

AllDone ==
    \A i \in 1..Len(proc) : proc[i].pc = "done"

\* a results array in the opposite of the input order
Results_Reversed ==
    [i \in 1..Len(proc) |-> proc[Len(proc) + 1 - i].result]

Results ==
    [i \in 1..Len(proc) |-> proc[i].result]

\* ------------------------------------------------------------------------
\* Actions
\* ------------------------------------------------------------------------
\* ------------------------------------------------------------------------
\* The page the content script runs on
\* ------------------------------------------------------------------------
\* elements matching SELECTORS.THUMBNAIL_CONTAINERS: three cards of the title
\* h1, a top-hero-card of the title h2 and the atf-component of a detail page
Containers ==
    {"card1", "card2", "card3", "hero", "atf"}

NoAttr ==
    ""

\* container.matches(EXCLUDED_FROM_FILTER)
EXCLUDED_FROM_FILTER ==
    {"hero", "atf"}

\* container.closest('li'): the cards and the hero card are items of a list
HasLi(c) ==
    c # "atf"

CHUNK_SIZE ==
    25

\* what extractInfo reads from a container: the native rating and year
\* badges are read on a detail page only
extractInfo(c, detail) ==
    [href |-> IF c = "hero" THEN "h2" ELSE "h1",
     verificationRating |-> IF detail /\ c = "atf" THEN "7.0" ELSE "",
     year |-> IF detail /\ c = "atf" THEN "2019" ELSE ""]

\* the state of a content script before anything was scanned
PageIdle ==
    /\ isDetailPage = FALSE
    /\ currentThreshold = 0
    /\ currentRtThreshold = 0
    /\ processedItems = {}
    /\ sessionCache = [h \in Hrefs |-> Null]
    /\ pendingContainers = [h \in Hrefs |-> {}]
    /\ processedAttr = [c \in Containers |-> NoAttr]
    /\ filterAttr = [c \in Containers |-> FALSE]
    /\ badged = [c \in Containers |-> FALSE]
    /\ sentMessages = <<>>
    /\ answered = {}
    /\ frames = <<>>

\* a service worker that has received no message
BackgroundIdle ==
    calls = <<>>

WorkerInit(stores) ==
    /\ store \in stores
    /\ now = Now0
    /\ ticks = 0
    /\ batches = 0
    /\ pc = "idle"
    /\ movies = <<>>
    /\ cachedMap = <<>>
    /\ proc = <<>>
    /\ updates = <<>>
    /\ statements = <<>>
    /\ dbReads = 0
    /\ dbWrites = 0
    /\ response = NoResponse
    /\ lastHit = [h \in Hrefs |-> Null]

InitWith(stores) ==
    /\ WorkerInit(stores)
    /\ PageIdle
    /\ BackgroundIdle

\* Fetch that reads the table before it looks at the shape of the payload
Fetch_ReadsFirst(body, readOk) ==
    /\ pc = "idle"
    /\ batches < MaxBatches
    /\ LET hrefs == {body.movies[i].href : i \in 1..Len(body.movies)} \ {""}
       IN  /\ movies' = body.movies
           /\ updates' = <<>>
           /\ statements' = <<>>
           /\ dbWrites' = 0
           /\ IF body.kind = "badJson"
              THEN /\ response' = ErrorResponse("Internal server error", 500)
                   /\ pc' = "responded"
                   /\ dbReads' = 0
                   /\ cachedMap' = <<>>
                   /\ proc' = <<>>
              ELSE IF body.kind # "array"
              THEN /\ response' = ErrorResponse("Invalid payload", 400)
                   /\ pc' = "responded"
                   /\ dbReads' = 1
                   /\ cachedMap' = <<>>
                   /\ proc' = <<>>
              ELSE IF hrefs # {} /\ ~readOk
              THEN /\ response' = ErrorResponse("Internal server error", 500)
                   /\ pc' = "responded"
                   /\ dbReads' = 1
                   /\ cachedMap' = <<>>
                   /\ proc' = <<>>
              ELSE LET map == [h \in {x \in hrefs : store[x] # Null} |-> store[h]]
                   IN  /\ response' = NoResponse
                       /\ pc' = "resolving"
                       /\ dbReads' = IF hrefs # {} THEN 1 ELSE 0
                       /\ cachedMap' = map
                       /\ proc' = [i \in 1..Len(body.movies) |->
                                     processMovieLogic(body.movies[i],
                                         Cached(map, body.movies[i].href), now)]
    /\ UNCHANGED <<store, now, ticks, batches, lastHit>>
    /\ UNCHANGED extensionVars

\* Fetch that does not leave the items without href out of the SELECT
Fetch_ReadsBlankKey(body, readOk) ==
    /\ pc = "idle"
    /\ batches < MaxBatches
    /\ LET hrefs == {body.movies[i].href : i \in 1..Len(body.movies)}
       IN  /\ movies' = body.movies
           /\ updates' = <<>>
           /\ statements' = <<>>
           /\ dbWrites' = 0
           /\ IF body.kind = "badJson"
              THEN /\ response' = ErrorResponse("Internal server error", 500)
                   /\ pc' = "responded"
                   /\ dbReads' = 0
                   /\ cachedMap' = <<>>
                   /\ proc' = <<>>
              ELSE IF body.kind # "array"
              THEN /\ response' = ErrorResponse("Invalid payload", 400)
                   /\ pc' = "responded"
                   /\ dbReads' = 0
                   /\ cachedMap' = <<>>
                   /\ proc' = <<>>
              ELSE IF hrefs # {} /\ ~readOk
              THEN /\ response' = ErrorResponse("Internal server error", 500)
                   /\ pc' = "responded"
                   /\ dbReads' = 1
                   /\ cachedMap' = <<>>
                   /\ proc' = <<>>
              ELSE LET map == [h \in {x \in hrefs \cap Hrefs : store[x] # Null}
                                  |-> store[h]]
                   IN  /\ response' = NoResponse
                       /\ pc' = "resolving"
                       /\ dbReads' = IF hrefs # {} THEN 1 ELSE 0
                       /\ cachedMap' = map
                       /\ proc' = [i \in 1..Len(body.movies) |->
                                     processMovieLogic(body.movies[i],
                                         Cached(map, body.movies[i].href), now)]
    /\ UNCHANGED <<store, now, ticks, batches, lastHit>>
    /\ UNCHANGED extensionVars

\* handleBatchLookup, lines 155-193 up to the first provider await: parse
\* the body, read the table once, start processMovieLogic for every element
Fetch(body, readOk) ==
    /\ pc = "idle"
    /\ batches < MaxBatches
    /\ LET hrefs == {body.movies[i].href : i \in 1..Len(body.movies)} \ {""}
       IN  /\ movies' = body.movies
           /\ updates' = <<>>
           /\ statements' = <<>>
           /\ dbWrites' = 0
           /\ IF body.kind = "badJson"
              THEN /\ response' = ErrorResponse("Internal server error", 500)
                   /\ pc' = "responded"
                   /\ dbReads' = 0
                   /\ cachedMap' = <<>>
                   /\ proc' = <<>>
              ELSE IF body.kind # "array"
              THEN /\ response' = ErrorResponse("Invalid payload", 400)
                   /\ pc' = "responded"
                   /\ dbReads' = 0
                   /\ cachedMap' = <<>>
                   /\ proc' = <<>>
              ELSE IF hrefs # {} /\ ~readOk
              THEN /\ response' = ErrorResponse("Internal server error", 500)
                   /\ pc' = "responded"
                   /\ dbReads' = 1
                   /\ cachedMap' = <<>>
                   /\ proc' = <<>>
              ELSE LET map == [h \in {x \in hrefs : store[x] # Null} |-> store[h]]
                   IN  /\ response' = NoResponse
                       /\ pc' = "resolving"
                       /\ dbReads' = IF hrefs # {} THEN 1 ELSE 0
                       /\ cachedMap' = map
                       /\ proc' = [i \in 1..Len(body.movies) |->
                                     processMovieLogic(body.movies[i],
                                         Cached(map, body.movies[i].href), now)]
    /\ UNCHANGED <<store, now, ticks, batches, lastHit>>
    /\ UNCHANGED extensionVars

\* Answer without the try / catch of processMovieLogic: an await of the
\* title chain that throws rejects Promise.all and the handler answers 500
Answer_AbortsOnThrow(i, ans) ==
    /\ pc = "resolving"
    /\ i \in 1..Len(proc)
    /\ proc[i].pc # "done"
    /\ LET q == Resume(proc[i], movies[i], Cached(cachedMap, movies[i].href),
                       ans, now)
       IN  /\ proc' = [proc EXCEPT ![i] = q]
           /\ IF Outcome(proc[i], ans).throws /\ proc[i].pc # "byId"
              THEN /\ updates' = updates
                   /\ pc' = "responded"
                   /\ response' = ErrorResponse("Internal server error", 500)
              ELSE /\ updates' = IF q.pc = "done" /\ q.result.source = "api"
                                     /\ q.result.data # Null
                                  THEN Append(updates, q.result.data)
                                  ELSE updates
                   /\ UNCHANGED <<pc, response>>
    /\ UNCHANGED <<store, now, ticks, batches, movies, cachedMap,
                   statements, dbReads, dbWrites, lastHit>>
    /\ UNCHANGED extensionVars

\* Answer that pushes every result with data, whatever its source
Answer_PushesAllData(i, ans) ==
    /\ pc = "resolving"
    /\ i \in 1..Len(proc)
    /\ proc[i].pc # "done"
    /\ LET q == Resume(proc[i], movies[i], Cached(cachedMap, movies[i].href),
                       ans, now)
       IN  /\ proc' = [proc EXCEPT ![i] = q]
           /\ updates' = IF q.pc = "done" /\ q.result.data # Null
                         THEN Append(updates, q.result.data)
                         ELSE updates
    /\ UNCHANGED <<store, now, ticks, batches, pc, movies, cachedMap,
                   statements, dbReads, dbWrites, response, lastHit>>
    /\ UNCHANGED extensionVars

\* one await of one processMovieLogic call completes; the call runs on to
\* its next await or returns, and a returned 'api' result is pushed
Answer(i, ans) ==
    /\ pc = "resolving"
    /\ i \in 1..Len(proc)
    /\ proc[i].pc # "done"
    /\ LET q == Resume(proc[i], movies[i], Cached(cachedMap, movies[i].href),
                       ans, now)
       IN  /\ proc' = [proc EXCEPT ![i] = q]
           /\ updates' = IF q.pc = "done" /\ q.result.source = "api"
                            /\ q.result.data # Null
                         THEN Append(updates, q.result.data)
                         ELSE updates
    /\ UNCHANGED <<store, now, ticks, batches, pc, movies, cachedMap,
                   statements, dbReads, dbWrites, response, lastHit>>
    /\ UNCHANGED extensionVars

\* the provider answers a fetchOMDbTitle or fetchOMDbById
AnswerFetch(i, payloads) ==
    /\ i \in 1..Len(proc)
    /\ proc[i].pc \in {"byId", "title", "amp"}
    /\ \E ans \in FetchAnswers(payloads) : Answer(i, ans)

\* the provider answers the fetches of a fetchOMDbSearch
AnswerSearch(i, payloads) ==
    /\ i \in 1..Len(proc)
    /\ proc[i].pc \in {"search", "split"}
    /\ \E ans \in SearchAnswers(payloads) : Answer(i, ans)

\* Save that writes as soon as one record is ready, without waiting for
\* Promise.all
Save_BeforeAllDone(writeOk) ==
    /\ pc = "resolving"
    /\ AllDone \/ updates # <<>>
    /\ IF updates # <<>>
       THEN /\ statements' = updates
            /\ dbWrites' = dbWrites + 1
            /\ IF writeOk
               THEN /\ store' = ApplyBatch(store, updates)
                    /\ response' = OkResponse(Results)
               ELSE /\ store' = store
                    /\ response' = ErrorResponse("Internal server error", 500)
       ELSE /\ UNCHANGED <<statements, dbWrites, store>>
            /\ response' = OkResponse(Results)
    /\ pc' = "responded"
    /\ UNCHANGED <<now, ticks, batches, movies, cachedMap, proc, updates,
                   dbReads, lastHit>>
    /\ UNCHANGED extensionVars

\* handleBatchLookup, lines 195-226: Promise.all has resolved; write the
\* updates in one batch and build the response
Save(writeOk) ==
    /\ pc = "resolving"
    /\ AllDone
    /\ IF updates # <<>>
       THEN /\ statements' = updates
            /\ dbWrites' = dbWrites + 1
            /\ IF writeOk
               THEN /\ store' = ApplyBatch(store, updates)
                    /\ response' = OkResponse(Results)
               ELSE /\ store' = store
                    /\ response' = ErrorResponse("Internal server error", 500)
       ELSE /\ UNCHANGED <<statements, dbWrites, store>>
            /\ response' = OkResponse(Results)
    /\ pc' = "responded"
    /\ UNCHANGED <<now, ticks, batches, movies, cachedMap, proc, updates,
                   dbReads, lastHit>>
    /\ UNCHANGED extensionVars

\* plain cache hits of the batch, remembered per key
HitsOf(h) ==
    {i \in 1..Len(proc) :
        /\ movies[i].href = h
        /\ FieldFalsy(movies[i].verificationRating)
        /\ proc[i].result.source = "cache"}

\* the Response leaves the worker; the locals of the call are gone
Return ==
    /\ pc = "responded"
    /\ pc' = "idle"
    /\ batches' = batches + 1
    /\ lastHit' = [h \in Hrefs |->
                     IF response.status = 200 /\ HitsOf(h) # {}
                     THEN LET i == CHOOSE k \in HitsOf(h) : TRUE
                          IN  [movie |-> movies[i], cached |-> cachedMap[h],
                               result |-> proc[i].result]
                     ELSE lastHit[h]]
    /\ movies' = <<>>
    /\ cachedMap' = <<>>
    /\ proc' = <<>>
    /\ updates' = <<>>
    /\ statements' = <<>>
    /\ dbReads' = 0
    /\ dbWrites' = 0
    /\ response' = NoResponse
    /\ UNCHANGED <<store, now, ticks>>
    /\ UNCHANGED extensionVars

\* time passes
Tick ==
    /\ ticks < MaxTicks
    /\ pc \in {"idle", "resolving"}
    /\ now' = now + TickStep
    /\ ticks' = ticks + 1
    /\ UNCHANGED <<store, batches, pc, movies, cachedMap, proc, updates,
                   statements, dbReads, dbWrites, response, lastHit>>
    /\ UNCHANGED extensionVars

\* ------------------------------------------------------------------------
\* The batch handler over small batches
\* ------------------------------------------------------------------------
T_Up ==
    <<"U","p">>  \* "Up"

\* OMDb payloads: a rated movie, and an entry without a rating (used below)
P70 ==
    Payload("tt1", "movie", Num(70), Num(2019), Iso(Now0 - 40 * MinutesPerDay),
            Num(1234), "98%")

PNA ==
    Payload("tt2", "movie", NA, NA, NADate, NA, "")

Payloads ==
    {P70}

\* rows the table can hold when a batch arrives: written within the hour
\* for a title released 6 days ago; written 31 days ago for a title released
\* 40 days ago; a row whose release date and imdb_id are blank (the case
\* isDataStale and the refresh branch guard against)
SeedFresh(h) ==
    Row(h, "tt1", T_Up, 2019, Iso(Now0 - 6 * MinutesPerDay), 74, "98%", 1234,
        Iso(Now0 - 59))

SeedStale(h) ==
    Row(h, "tt1", T_Up, 2019, Iso(Now0 - 40 * MinutesPerDay), 74, "", 1234,
        Iso(Now0 - 31 * MinutesPerDay))

SeedBlank(h) ==
    Row(h, "", T_Up, 0, EmptyDate, 74, "", 0, Iso(Now0 - 59))

InitStores ==
    {[h \in Hrefs |-> IF h = "h1" THEN r1 ELSE r2] :
        r1 \in {Null, SeedFresh("h1"), SeedStale("h1")},
        r2 \in {Null}}

Movies ==
    {Movie("h1", T_Up, "", Absent),
     Movie("h2", T_Up, "", Absent),
     Movie("h1", T_Up, "", Num(85)),
     Movie("h1", <<>>, "", Absent),
     Movie("", T_Up, "", Absent)}

SeqsUpTo(S, n) ==
    UNION {[1..k -> S] : k \in 0..n}

Bodies ==
    {ArrayBody(ms) : ms \in SeqsUpTo(Movies, MaxItems)}
    \cup {AbsentBody, NotArrayBody, BadJsonBody}

Init ==
    InitWith(InitStores)

Next ==
    \/ \E body \in Bodies, readOk \in BOOLEAN : Fetch(body, readOk)
    \/ \E i \in 1..MaxItems : AnswerFetch(i, Payloads)
    \/ \E i \in 1..MaxItems : AnswerSearch(i, Payloads)
    \/ \E writeOk \in BOOLEAN : Save(writeOk)
    \/ Return
    \/ Tick

Spec ==
    Init /\ [][Next]_vars

\* ------------------------------------------------------------------------
\* One request with one item: the fallback chain over the titles of the
\* examples, with and without a verification rating
\* ------------------------------------------------------------------------
T_Mission ==
    <<"M","i","s","s","i","o","n",":"," ","I","m","p","o","s","s","i","b","l","e"," ","-"," ","F","a","l","l","o","u","t">>  \* "Mission: Impossible - Fallout"

T_LiveDie ==
    <<"L","i","v","e"," ","D","i","e"," ","R","e","p","e","a","t",":"," ","E","d","g","e"," ","o","f"," ","T","o","m","o","r","r","o","w">>  \* "Live Die Repeat: Edge of Tomorrow"

T_Fast ==
    <<"F","a","s","t"," ","&"," ","F","u","r","i","o","u","s">>  \* "Fast & Furious"

T_Rocky ==
    <<"R","o","c","k","y",":"," ","I","I">>  \* "Rocky: II"

T_UpPart ==
    <<"U","p"," ","-"," ","P","a","r","t">>  \* "Up - Part"

T_Heat ==
    <<"H","e","a","t"," ","(","1","9","9","5",")">>  \* "Heat (1995)"

T_AlienDC ==
    <<"A","l","i","e","n"," ","D","I","R","E","C","T","O","R","'","S"," ","C","U","T">>  \* "Alien DIRECTOR'S CUT"

T_OnlyDC ==
    <<"D","i","r","e","c","t","o","r","'","s"," ","C","u","t">>  \* "Director's Cut"

T_OnlyParen ==
    <<"(","2","0","2","4",")">>  \* "(2024)"

S_MissionImpossible ==
    <<"M","i","s","s","i","o","n",":"," ","I","m","p","o","s","s","i","b","l","e">>  \* "Mission: Impossible"

S_Mission ==
    <<"M","i","s","s","i","o","n">>  \* "Mission"

S_Fallout ==
    <<"F","a","l","l","o","u","t">>  \* "Fallout"

S_Edge ==
    <<"E","d","g","e"," ","o","f"," ","T","o","m","o","r","r","o","w">>  \* "Edge of Tomorrow"

S_FastAnd ==
    <<"F","a","s","t"," ","a","n","d"," ","F","u","r","i","o","u","s">>  \* "Fast and Furious"

ChainTitles ==
    {<<>>, T_Up, T_Mission, T_LiveDie, T_Fast, T_Rocky, T_UpPart, T_Heat,
     T_AlienDC, T_OnlyDC, T_OnlyParen}

\* a rated series, and a rated entry that reports nothing else
P85 ==
    Payload("tt3", "series", Num(85), Num(2014), Iso(Now0 - 6 * MinutesPerDay),
            Num(99), "")

P76 ==
    Payload("tt4", "", Num(76), NA, NADate, NA, "")

ChainPayloads ==
    {P70, P76, P85, PNA}

ChainMovies ==
    {Movie("h1", t, e, v) :
        t \in ChainTitles, e \in {"", "Movie", "TV Show"},
        v \in {Absent, Num(75), Num(76), Num(85)}}

ChainStores ==
    {[h \in Hrefs |-> IF h = "h1" THEN r1 ELSE Null] :
        r1 \in {Null, SeedFresh("h1"), SeedStale("h1"), SeedBlank("h1")}}

InitChain ==
    InitWith(ChainStores)

NextChain ==
    \/ \E m \in ChainMovies : batches = 0 /\ Fetch(ArrayBody(<<m>>), TRUE)
    \/ AnswerFetch(1, ChainPayloads)
    \/ AnswerSearch(1, ChainPayloads)
    \/ Save(TRUE)
    \/ Return

SpecChain ==
    InitChain /\ [][NextChain]_vars

\* ------------------------------------------------------------------------
\* One request with one item over rows of every age: the staleness policy
\* ------------------------------------------------------------------------
\* minutes since release and since the last update, around the tier limits
ReleaseAges ==
    {0 - MinutesPerDay, 0, 6 * MinutesPerDay, 7 * MinutesPerDay,
     7 * MinutesPerDay + 1, 8 * MinutesPerDay, 14 * MinutesPerDay,
     14 * MinutesPerDay + 1, 15 * MinutesPerDay, 40 * MinutesPerDay}

UpdateAges ==
    {0, 59, 60, 61, 1439, 1440, 1441, 43199, 43200, 43201}

StaleRows ==
    {Row("h1", id, T_Up, 2019, rel, 74, "", 1234, upd) :
        id \in {"tt1", ""},
        rel \in {Iso(Now0 - a) : a \in ReleaseAges} \cup {EmptyDate, BadDate},
        upd \in {Iso(Now0 - a) : a \in UpdateAges} \cup {BadDate}}

StaleStores ==
    {[h \in Hrefs |-> IF h = "h1" THEN r ELSE Null] : r \in StaleRows}

StaleMovies ==
    {Movie("h1", T_Up, "", Absent), Movie("h1", <<>>, "", Num(75))}

InitStale ==
    InitWith(StaleStores)

NextStale ==
    \/ \E m \in StaleMovies : batches = 0 /\ Fetch(ArrayBody(<<m>>), TRUE)
    \/ AnswerFetch(1, Payloads)
    \/ AnswerSearch(1, Payloads)
    \/ Save(TRUE)
    \/ Return
    \/ Tick

SpecStale ==
    InitStale /\ [][NextStale]_vars

\* ------------------------------------------------------------------------
\* Properties
\* ------------------------------------------------------------------------
\* the calls of the batch whose key has a row in the snapshot
WithRow ==
    {i \in 1..Len(proc) : movies[i].href \in DOMAIN cachedMap}

RowOf(i) ==
    cachedMap[movies[i].href]

ReturnedFromCache(i) ==
    proc[i].pc = "done" /\ proc[i].result.source = "cache"

\* C1: an item whose key has a cached row that is fresh under isDataStale
\* and that carries no verificationRating gets the cached row back unchanged
\* with source 'cache', issues no provider request and puts nothing into the
\* store write; asking again for the same title and key while the row is
\* unchanged and fresh gives the identical result, again without a request.
C1_FreshHitIsIdempotent ==
    \A i \in WithRow :
        LET m == movies[i]
            h == m.href
            r == proc[i].result
        IN  ( /\ FieldFalsy(m.verificationRating)
              /\ ~isDataStale(RowOf(i).release_date, RowOf(i).updated_at,
                              proc[i].at) )
            => /\ proc[i].pc = "done"
               /\ r.href = h /\ r.data = RowOf(i) /\ r.source = "cache"
               /\ r.error = ""
               /\ proc[i].reqs = <<>>
               /\ \A k \in 1..Len(updates) :
                     updates[k].prime_href = h
                     => \E j \in 1..Len(proc) :
                           /\ j # i
                           /\ proc[j].pc = "done"
                           /\ proc[j].result.source = "api"
                           /\ proc[j].result.data = updates[k]
               /\ ( /\ lastHit[h] # Null
                    /\ lastHit[h].movie = m
                    /\ lastHit[h].cached = RowOf(i) )
                  => r = lastHit[h].result

\* a second request for a title and key that an earlier batch answered from
\* the cache, answered from the cache again
C1_Witness ==
    \E i \in WithRow :
        /\ batches >= 1
        /\ lastHit[movies[i].href] # Null
        /\ lastHit[movies[i].href].movie = movies[i]
        /\ FieldFalsy(movies[i].verificationRating)
        /\ ReturnedFromCache(i)
        /\ pc = "responded"

\* C2: for parsable dates the TTL is chosen by the days since release (up
\* to 7 days: 1 hour; 8 to 14 days: 1 day; 15 days or more: 30 days) and the
\* row is stale iff the time since updatedAt strictly exceeds that TTL; so
\* a row released 7 days ago is fresh 59 minutes after its update and stale
\* after 61, and the tier goes from 1 day to 30 days between 14 and 15 days.
\* (The items of SpecStale carry no verification rating that mismatches, so
\* a row is returned with source 'cache' exactly when isDataStale is false.)
C2_TTLTiers ==
    \A i \in WithRow :
        LET c     == RowOf(i)
            age   == proc[i].at - c.release_date.t
            since == proc[i].at - c.updated_at.t
            day   == 24 * 60
            ttl   == IF age <= 7 * day THEN 60
                     ELSE IF age <= 14 * day THEN day
                     ELSE 30 * day
        IN  ( /\ c.release_date.kind = "iso"
              /\ c.updated_at.kind = "iso"
              /\ (age <= 7 * day \/ age >= 8 * day)
              /\ (age <= 14 * day \/ age >= 15 * day) )
            => (ReturnedFromCache(i) <=> ~(since > ttl))

\* a row released 7 days ago and updated 59 minutes ago, answered as fresh
C2_Witness ==
    \E i \in WithRow :
        /\ RowOf(i).release_date = Iso(proc[i].at - 7 * 24 * 60)
        /\ RowOf(i).updated_at = Iso(proc[i].at - 59)
        /\ ReturnedFromCache(i)

\* C3: a row whose release date is missing or does not parse is stale
\* whatever updatedAt and the time are; it is never returned with source
\* 'cache'.
C3_UnparsableReleaseIsStale ==
    \A i \in WithRow :
        RowOf(i).release_date.kind # "iso" => ~ReturnedFromCache(i)

\* a row without a release date, updated a minute ago, returned as stale
C3_Witness ==
    \E i \in WithRow :
        /\ RowOf(i).release_date.kind # "iso"
        /\ RowOf(i).updated_at = Iso(proc[i].at)
        /\ proc[i].pc = "done"
        /\ proc[i].result.source = "cache-stale"

\* the difference of two ratings in tenths
TenthsApart(a, b) ==
    IF a < b THEN b - a ELSE a - b

\* C4: a fresh cached row is returned as a cache hit iff no
\* verificationRating is supplied or it differs from the cached rating by
\* less than 0.2; when it differs by 0.2 or more the row is not returned as a
\* cache hit and the call goes on to a provider lookup by title.
C4_CacheHitIffWithinThreshold ==
    \A i \in WithRow :
        LET c       == RowOf(i)
            vr      == movies[i].verificationRating
            differs == vr.kind = "num" /\ TenthsApart(c.rating, vr.v) >= 2
        IN  ~isDataStale(c.release_date, c.updated_at, proc[i].at)
            => /\ ReturnedFromCache(i) <=> ~differs
               /\ differs => /\ proc[i].reqs # <<>>
                             /\ proc[i].reqs[1].kind = "t"

\* C5: two items of a batch that share a key which needs the provider cause
\* one provider resolution for that key, and the two response entries carry
\* identical data.
C5_DuplicateKeyResolvedOnce ==
    (pc = "responded" /\ response.status = 200)
    => \A i, j \in 1..Len(proc) :
          ( /\ i < j
            /\ movies[i].href # ""
            /\ movies[i].href = movies[j].href
            /\ (proc[i].reqs # <<>> \/ proc[j].reqs # <<>>) )
          => /\ proc[i].reqs = <<>> \/ proc[j].reqs = <<>>
             /\ response.results[i].data = response.results[j].data

\* C6: when the batched store write fails after the items were resolved,
\* the response still carries the per-item results.
C6_WriteFailureKeepsResults ==
    (pc = "responded" /\ dbWrites > 0)
    => /\ response.status = 200
       /\ response.results = Results

\* C7: every item resolved with source 'api' or 'api-refresh' has its record
\* in the store write of the batch, and after the batch the stored row of
\* its key carries the new rating and updatedAt.
C7_ResolvedItemsAreWritten ==
    pc = "responded"
    => \A i \in 1..Len(proc) :
          LET r == proc[i].result
          IN  r.source \in {"api", "api-refresh"}
              => /\ \E k \in 1..Len(statements) : statements[k] = r.data
                 /\ response.status = 200
                    => /\ store[r.href] # Null
                       /\ store[r.href].rating = r.data.rating
                       /\ store[r.href].updated_at = r.data.updated_at

\* C8: for a stale cached row with a stored imdb_id the call issues the
\* lookup by id and nothing else; when that lookup finds nothing, reports no
\* rating or throws, the result is the cached row with source 'cache-stale';
\* no lookup by title and no search is issued.
C8_StaleWithIdOnlyRefreshes ==
    \A i \in WithRow :
        LET c == RowOf(i)
        IN  ( /\ isDataStale(c.release_date, c.updated_at, proc[i].at)
              /\ c.imdb_id # "" )
            => /\ proc[i].reqs = <<Req("i", <<>>, c.imdb_id)>>
               /\ proc[i].pc \in {"byId", "done"}
               /\ proc[i].pc = "done"
                  => /\ Len(proc[i].answers) = 1
                     /\ LET a == proc[i].answers[1]
                            failed ==
                                IF a.throws \/ a.value = Null THEN TRUE
                                ELSE a.value.imdbRating.kind \in {"na", "absent"}
                        IN  failed => /\ proc[i].result.source = "cache-stale"
                                      /\ proc[i].result.data = c

\* a refresh by id that came back without a rating, answered with the stale
\* row
C8_Witness ==
    \E i \in WithRow :
        /\ RowOf(i).imdb_id # ""
        /\ proc[i].pc = "done"
        /\ Len(proc[i].answers) = 1
        /\ proc[i].answers[1].step = "byId"
        /\ proc[i].answers[1].value # Null
        /\ proc[i].answers[1].value.imdbRating.kind = "na"
        /\ proc[i].result.source = "cache-stale"

\* the await of that name has completed and gave null
GaveNull(i, step) ==
    \E k \in 1..Len(proc[i].answers) :
        /\ proc[i].answers[k].step = step
        /\ ~proc[i].answers[k].throws
        /\ proc[i].answers[k].value = Null

Searched(i, title) ==
    \E k \in 1..Len(proc[i].reqs) : proc[i].reqs[k] = Req("s", title, "")

\* C9: without a verificationRating, when the lookup by title and the search
\* on the normalized title both give nothing, "Mission: Impossible - Fallout"
\* is next searched as "Mission: Impossible", and never as "Fallout".
C9_MissionSplitsBeforeDash ==
    \A i \in 1..Len(proc) :
        ( /\ proc[i].title = T_Mission
          /\ FieldFalsy(movies[i].verificationRating) )
        => /\ ~Searched(i, S_Fallout)
           /\ (GaveNull(i, "title") /\ GaveNull(i, "search"))
              => /\ Searched(i, S_MissionImpossible)
                 /\ Len(proc[i].answers) = 2
                    => /\ proc[i].pc = "split"
                       /\ proc[i].reqs[Len(proc[i].reqs)]
                            = Req("s", S_MissionImpossible, "")

\* the text after the first of '-', ':', '&', trimmed
AfterFirstSpecial(title) ==
    LET k == CHOOSE n \in 1..Len(title) :
                 /\ IsSpecialChar(title[n])
                 /\ \A j \in 1..(n - 1) : ~IsSpecialChar(title[j])
    IN  Trim(SubSeq(title, k + 1, Len(title)))

HasSpecial(title) ==
    \E n \in 1..Len(title) : IsSpecialChar(title[n])

\* an attempt that failed (no payload, or for a lookup by title a payload
\* that is not valid) or whose rating mismatches the verification rating
FailedOrMismatched(i, a) ==
    /\ ~a.throws
    /\ IF a.value = Null THEN TRUE
       ELSE \/ a.step \in {"title", "amp"}
               /\ ~isValidResult(a.value, movies[i].entityType)
            \/ Mismatch(a.value.imdbRating, movies[i].verificationRating)

HasAnswer(i, step) ==
    \E k \in 1..Len(proc[i].answers) : proc[i].answers[k].step = step

\* with a verificationRating, the primary lookup, the ampersand retry (for a
\* title with '&') and the search (unless the retry left a valid but
\* mismatching payload) have all completed, each failing or mismatching
EarlierAttemptsFailed(i) ==
    /\ ~FieldFalsy(movies[i].verificationRating)
    /\ HasAnswer(i, "title")
    /\ Includes(proc[i].title, "&") => HasAnswer(i, "amp")
    /\ \/ HasAnswer(i, "search")
       \/ \E k \in 1..Len(proc[i].answers) :
             /\ proc[i].answers[k].step = "amp"
             /\ proc[i].answers[k].value # Null
             /\ isValidResult(proc[i].answers[k].value, movies[i].entityType)
    /\ \A k \in 1..Len(proc[i].answers) :
          proc[i].answers[k].step \in {"title", "amp", "search"}
          => FailedOrMismatched(i, proc[i].answers[k])

GaveNoValid(i, step) ==
    \E k \in 1..Len(proc[i].answers) :
        /\ proc[i].answers[k].step = step
        /\ ~proc[i].answers[k].throws
        /\ \/ proc[i].answers[k].value = Null
           \/ ~isValidResult(proc[i].answers[k].value, movies[i].entityType)

\* every '&' of the title replaced by " and ", runs of blanks made one blank
\* and the ends trimmed, written out position by position
AndForAmp(title) ==
    LET wide  == [k \in 1..Len(title) |->
                     IF title[k] = "&" THEN S_And ELSE <<title[k]>>]
        Flat[k \in 0..Len(title)] ==
            IF k = 0 THEN <<>> ELSE Flat[k - 1] \o wide[k]
        flat  == Flat[Len(title)]
        keep  == {k \in 1..Len(flat) :
                     \/ flat[k] # " "
                     \/ /\ k > 1 /\ flat[k - 1] # " "
                        /\ \E j \in (k + 1)..Len(flat) : flat[j] # " "}
        Pick[k \in 0..Len(flat)] ==
            IF k = 0 THEN <<>>
            ELSE IF k \in keep THEN Append(Pick[k - 1], flat[k])
            ELSE Pick[k - 1]
    IN  Pick[Len(flat)]

\* C11: for a title containing '&' whose primary lookup by title gives no
\* valid result, the next provider request is the lookup by title of the
\* title with each '&' replaced by " and " and whitespace collapsed ("Fast &
\* Furious" becomes "Fast and Furious"); the search on the normalized title,
\* '&' intact, is issued only after that retry too gave no valid result, and
\* without a verification rating no search at all is issued otherwise.
C11_AmpersandRetryBeforeSearch ==
    \A i \in 1..Len(proc) :
        LET title == proc[i].title
        IN  ( /\ Includes(title, "&")
              /\ GaveNoValid(i, "title") )
            => /\ Len(proc[i].reqs) >= 2
               /\ proc[i].reqs[1] = Req("t", title, "")
               /\ proc[i].reqs[2] = Req("t", AndForAmp(title), "")
               /\ title = T_Fast => proc[i].reqs[2] = Req("t", S_FastAnd, "")
               /\ \A k \in 1..Len(proc[i].reqs) :
                     ( /\ proc[i].reqs[k].kind = "s"
                       /\ \/ proc[i].reqs[k].title = title
                          \/ FieldFalsy(movies[i].verificationRating) )
                     => /\ k >= 3
                        /\ GaveNoValid(i, "amp")
               /\ (GaveNoValid(i, "amp") /\ Len(proc[i].answers) = 2)
                  => /\ proc[i].pc = "search"
                     /\ proc[i].reqs[3] = Req("s", title, "")

\* "Fast & Furious": the lookup by title and the retry as "Fast and Furious"
\* found nothing, and the search on "Fast & Furious" is under way
C11_Witness ==
    \E i \in 1..Len(proc) :
        /\ proc[i].title = T_Fast
        /\ GaveNoValid(i, "title")
        /\ GaveNoValid(i, "amp")
        /\ proc[i].pc = "search"
        /\ proc[i].reqs = <<Req("t", T_Fast, ""), Req("t", S_FastAnd, ""),
                            Req("s", T_Fast, "")>>

\* a provider answer that gives an await the outcome a
AnswerOf(a) ==
    IF a.step \in {"search", "split"}
    THEN IF a.throws THEN [list |-> "throw", id |-> "", detail |-> NotFound]
         ELSE IF a.value = Null
         THEN [list |-> "none", id |-> "", detail |-> NotFound]
         ELSE [list |-> "hit", id |-> a.value.imdbID, detail |-> Hit(a.value)]
    ELSE IF a.throws THEN Throws
    ELSE IF a.value = Null THEN NotFound
    ELSE Hit(a.value)

RECURSIVE AloneFrom(_, _, _, _, _)
AloneFrom(p, movie, cached, answers, t) ==
    IF answers = <<>> \/ p.pc = "done" THEN p
    ELSE AloneFrom(Resume(p, movie, cached, AnswerOf(Head(answers)), t),
                   movie, cached, Tail(answers), t)

\* what a request for this item alone returns when it is called at t0, the
\* table holds the row cached for its key, the provider answers its awaits
\* as the list says and the call ends at t
Alone(movie, cached, answers, t0, t) ==
    AloneFrom(processMovieLogic(movie, cached, t0), movie, cached, answers, t)

\* the call failed: missing key, missing title, a provider fetch of the title
\* chain that threw, or nothing found
Failed(i) ==
    /\ proc[i].pc = "done"
    /\ proc[i].result.data = Null

C14_WriteReplacesWholeRow ==
    (pc = "responded" /\ response.status = 200)
    => \A k \in 1..Len(statements) :
          LET d == statements[k]
          IN  ( /\ d.prime_href \in DOMAIN cachedMap
                /\ \A l \in (k + 1)..Len(statements) :
                      statements[l].prime_href # d.prime_href )
              => store[d.prime_href] = d

\* C15: while one batch is handled the table is read at most once and
\* written at most once; a provider request of the batch is issued only
\* after the read, and the write only after every processMovieLogic call of
\* the batch has returned.
C15_OneReadOneWrite ==
    /\ dbReads <= 1
    /\ dbWrites <= 1
    /\ \A i \in 1..Len(proc) :
          /\ proc[i].reqs # <<>> => dbReads = 1
          /\ movies[i].href # "" => dbReads = 1
          /\ pc = "resolving"
             => Cached(cachedMap, movies[i].href)
                  = IF movies[i].href = "" THEN Null ELSE store[movies[i].href]
    /\ pc = "resolving" => dbWrites = 0 /\ statements = <<>>
    /\ dbWrites > 0 => AllDone /\ statements = updates /\ pc = "responded"
    /\ statements # <<>> => dbWrites = 1

\* a batch of two, both resolved through the provider, read once and
\* written once
C15_Witness ==
    /\ pc = "responded"
    /\ Len(proc) = 2
    /\ \A i \in 1..2 : proc[i].reqs # <<>> /\ proc[i].result.source = "api"
    /\ dbReads = 1
    /\ dbWrites = 1

\* C16: the statements of one store write never hold two statements for the
\* same key, whatever the list of items, repeated keys included.
C16_NoKeyWrittenTwice ==
    \A k, l \in 1..Len(statements) :
        k # l => statements[k].prime_href # statements[l].prime_href

\* no cache short-circuit applies: there is no row for the key, or the row
\* is neither returned as a cache hit nor refreshed by id
NoShortCircuit(i) ==
    LET m == movies[i]
        c == Cached(cachedMap, m.href)
    IN  /\ m.href # ""
        /\ \/ c = Null
           \/ /\ ~isDataStale(c.release_date, c.updated_at, proc[i].at)
              /\ Mismatch(Num(c.rating), m.verificationRating)
           \/ /\ isDataStale(c.release_date, c.updated_at, proc[i].at)
              /\ c.imdb_id = ""

TitleMissing(i) ==
    /\ proc[i].pc = "done"
    /\ proc[i].result
         = ErrorResult(movies[i].href, "OMDb Lookup skipped: Missing title")
    /\ proc[i].reqs = <<>>

C18_EntryHasDataXorError ==
    (pc = "responded" /\ response.status = 200)
    => /\ Len(response.results) = Len(movies)
       /\ \A k \in 1..Len(response.results) :
             LET e == response.results[k]
             IN  /\ e.href = movies[k].href
                 /\ (e.data # Null) # (e.error # "")
                 /\ (e.source # "") <=> (e.data # Null)
                 /\ e.data # Null
                    => e.source \in {"cache", "cache-stale", "api", "api-refresh"}

\* a response of two entries, one with data and a source, one with an error
C18_Witness ==
    /\ pc = "responded"
    /\ response.status = 200
    /\ \E k, l \in 1..Len(response.results) :
          /\ response.results[k].data # Null
          /\ response.results[k].source = "api-refresh"
          /\ response.results[l].data = Null
          /\ response.results[l].error # ""

\* C19: on a successful refresh by id of a stale row, the returned record
\* (source 'api-refresh') keeps the title and key of the row, takes rating,
\* rt_rating and votes from the provider, and keeps the value of the row for
\* each of year, release_date, rt_rating and votes that the provider reports
\* as unknown.
C19_RefreshKeepsKnownFields ==
    \A i \in WithRow :
        (proc[i].pc = "done" /\ proc[i].result.source = "api-refresh")
        => LET c == RowOf(i)
               o == proc[i].answers[1].value
               d == proc[i].result.data
           IN  /\ d.title = c.title
               /\ d.prime_href = movies[i].href
               /\ d.rating = o.imdbRating.v
               /\ o.rt # "" => d.rt_rating = o.rt
               /\ o.imdbVotes.kind = "num" => d.votes = o.imdbVotes.v
               /\ o.Year.kind # "num" => d.year = c.year
               /\ o.rt = "" => d.rt_rating = c.rt_rating
               /\ o.imdbVotes.kind # "num" => d.votes = c.votes
               /\ o.Released.kind \in {"na", "empty"}
                  => d.release_date = c.release_date

\* C20: every record returned with source 'api' is built from a provider
\* payload that isValidResult accepts for the entityType of the item,
\* whichever step of the chain gave it; a payload that is not valid, one
\* given by a search included, never becomes a record.
C20_ApiRecordsAreValid ==
    \A i \in 1..Len(proc) :
        (proc[i].pc = "done" /\ proc[i].result.source = "api")
        => LET n == Len(proc[i].answers)
               o == proc[i].answers[n].value
           IN  /\ o # Null
               /\ proc[i].result.data.imdb_id = o.imdbID
               /\ isValidResult(o, movies[i].entityType)

\* C21: when a verificationRating is supplied, every record returned with
\* source 'api' has a rating less than 0.2 away from it, whichever step of
\* the chain gave the payload and whether or not the title holds one of '-',
\* ':', '&'.
C21_ApiRecordsMatchVerification ==
    \A i \in 1..Len(proc) :
        ( /\ proc[i].pc = "done"
          /\ proc[i].result.source = "api"
          /\ movies[i].verificationRating.kind = "num" )
        => TenthsApart(proc[i].result.data.rating,
                       movies[i].verificationRating.v) < 2

\* ------------------------------------------------------------------------
\* One request with one item and no row: the cleaning of the title, the
\* fallback decision around the 0.2 threshold, and the record built from
\* payloads that report little
\* ------------------------------------------------------------------------
T_AlienParenDC ==
    <<"A","l","i","e","n"," ","(","1","9","7","9",")"," ","D","i","r","e","c","t","o","r","'","s"," ","C","u","t">>  \* "Alien (1979) Director's Cut"

T_DCParen ==
    <<"D","i","r","e","c","t","o","r","'","s"," ","C","u","t"," ","(","2","0","1","9",")">>  \* "Director's Cut (2019)"

T_HeatTwo ==
    <<"H","e","a","t"," ","(","1","9","9","5",")"," ","[","4","K","]">>  \* "Heat (1995) [4K]"

T_UpDCDC ==
    <<"U","p"," ","D","i","r","e","c","t","o","r","'","s"," ","C","u","t"," ","D","i","r","e","c","t","o","r","'","s"," ","C","u","t">>  \* "Up Director's Cut Director's Cut"

T_ParenDC ==
    <<"(","2","0","2","4",")"," ","D","i","r","e","c","t","o","r","'","s"," ","C","u","t">>  \* "(2024) Director's Cut"

T_UpSpaced ==
    <<" ","U","p"," ">>  \* " Up "

T_HeatNested ==
    <<"H","e","a","t"," ","(","a"," ","(","b",")">>  \* "Heat (a (b)"

S_Heat ==
    <<"H","e","a","t">>  \* "Heat"

S_Alien ==
    <<"A","l","i","e","n">>  \* "Alien"

S_HeatParen ==
    <<"H","e","a","t"," ","(","1","9","9","5",")">>  \* "Heat (1995)"

S_UpDC ==
    <<"U","p"," ","D","i","r","e","c","t","o","r","'","s"," ","C","u","t">>  \* "Up Director's Cut"

BuildTitles ==
    {T_Up, T_Heat, T_AlienDC, T_OnlyDC, T_OnlyParen, T_AlienParenDC,
     T_DCParen, T_HeatTwo, T_UpDCDC, T_ParenDC, T_UpSpaced, T_HeatNested,
     T_Fast, T_UpPart}

\* a payload whose numeric fields are texts that parse to NaN, with an empty
\* Released and no imdbVotes
PText ==
    Payload("tt5", "movie", NotNumeric, NotNumeric, EmptyDate, Absent, "")

BuildPayloads ==
    {P70, P76, P85, PText}

\* verification ratings one, two and three tenths away from 7.0 and 8.5
BuildMovies ==
    {Movie("h1", t, "", v) :
        t \in BuildTitles,
        v \in {Absent, Num(71), Num(72), Num(73), Num(83), Num(87)}}

InitBuild ==
    InitWith({[h \in Hrefs |-> Null]})

NextBuild ==
    \/ \E m \in BuildMovies : batches = 0 /\ Fetch(ArrayBody(<<m>>), TRUE)
    \/ AnswerFetch(1, BuildPayloads)
    \/ AnswerSearch(1, BuildPayloads)
    \/ Save(TRUE)
    \/ Return
    \/ Tick

SpecBuild ==
    InitBuild /\ [][NextBuild]_vars

\* C22: once the primary lookup by title has answered, needsFallback is true
\* iff its result is absent or not valid, or a verificationRating is
\* supplied and the rating of the result is 0.2 or more away from it (the
\* result is then discarded); when needsFallback is false no further
\* provider request is issued and the record is built from the primary
\* result.
C22_FallbackDecision ==
    \A i \in 1..Len(proc) :
        ( /\ Len(proc[i].answers) >= 1
          /\ proc[i].answers[1].step = "title"
          /\ ~proc[i].answers[1].throws )
        => LET o       == proc[i].answers[1].value
               vr      == movies[i].verificationRating
               valid   == o # Null /\ isValidResult(o, movies[i].entityType)
               differs == /\ valid
                          /\ vr.kind = "num"
                          /\ o.imdbRating.kind = "num"
                          /\ TenthsApart(o.imdbRating.v, vr.v) >= 2
           IN  /\ proc[i].needsFallback <=> (~valid \/ differs)
               /\ (differs /\ Len(proc[i].answers) = 1)
                  => proc[i].omdbResult = Null /\ proc[i].pc # "done"
               /\ ~proc[i].needsFallback
                  => /\ proc[i].pc = "done"
                     /\ Len(proc[i].reqs) = 1
                     /\ proc[i].result.source = "api"
                     /\ proc[i].result.data.imdb_id = o.imdbID
                     /\ proc[i].result.data.rating = NumberOr(o.imdbRating, 0)

\* the rating is present and not 'N/A', and the types agree where the item
\* has an entity type and the payload has a type
Acceptable(o, entityType) ==
    /\ o.imdbRating.kind \notin {"absent", "na"}
    /\ \/ entityType = ""
       \/ o.Type = ""
       \/ entityType = "Movie" /\ o.Type = "movie"
       \/ entityType # "Movie" /\ o.Type = "series"

BeforeFirstSpecial(title) ==
    LET k == CHOOSE n \in 1..Len(title) :
                 /\ IsSpecialChar(title[n])
                 /\ \A j \in 1..(n - 1) : ~IsSpecialChar(title[j])
    IN  Trim(SubSeq(title, 1, k - 1))

\* the part of the title the split search is made on: the text after the
\* character with a verification rating, the text in front of it without
SplitPart(i) ==
    IF FieldFalsy(movies[i].verificationRating)
    THEN BeforeFirstSpecial(proc[i].title)
    ELSE AfterFirstSpecial(proc[i].title)

\* the title can be split: it holds one of the characters and the part is
\* longer than 2 characters
Splittable(i) ==
    HasSpecial(proc[i].title) /\ Len(SplitPart(i)) > 2

SplitIssued(i) ==
    proc[i].pc = "split" \/ HasAnswer(i, "split")

ValueOrZero(f) ==
    IF f.kind = "num" THEN f.v ELSE 0

\* C25: a record returned with source 'api' has the key of the request and
\* as title the cleaned title of the request ("Heat (1995)" gives "Heat"),
\* not the ampersand or split variant that found the payload; rating, year
\* and votes are 0 where the payload reports them as unknown or as text that
\* is not a number, and release_date is the time of the resolution where
\* the payload reports none.
C25_RecordBuiltFromPayload ==
    \A i \in 1..Len(proc) :
        ( /\ proc[i].pc = "done"
          /\ proc[i].result.source = "api"
          /\ movies[i].title # <<>> )
        => LET m == movies[i]
               d == proc[i].result.data
               o == proc[i].answers[Len(proc[i].answers)].value
           IN  /\ proc[i].result.href = m.href
               /\ d.prime_href = m.href
               /\ d.title = NormalizeTitle(m.title)
               /\ m.title = T_Heat => d.title = S_Heat
               /\ m.title = T_Fast => d.title = T_Fast
               /\ m.title = T_UpPart => d.title = T_UpPart
               /\ d.imdb_id = o.imdbID
               /\ d.rating = ValueOrZero(o.imdbRating)
               /\ d.year = ValueOrZero(o.Year)
               /\ d.votes = ValueOrZero(o.imdbVotes)
               /\ d.updated_at.kind = "iso"
               /\ d.updated_at.t >= proc[i].at
               /\ d.updated_at.t <= now
               /\ o.Released.kind = "iso" => d.release_date = o.Released
               /\ o.Released.kind \in {"na", "empty"}
                  => d.release_date = d.updated_at

\* "Fast & Furious" found as "Fast and Furious" after the clock advanced,
\* with a payload that reports no number and no release date
C25_Witness ==
    \E i \in 1..Len(proc) :
        /\ movies[i].title = T_Fast
        /\ proc[i].pc = "done"
        /\ proc[i].result.source = "api"
        /\ Len(proc[i].answers) = 2
        /\ proc[i].answers[2].step = "amp"
        /\ proc[i].answers[2].value = PText
        /\ proc[i].result.data.title = T_Fast
        /\ proc[i].result.data.rating = 0
        /\ proc[i].result.data.release_date = Iso(proc[i].at + TickStep)

\* C26: for a stale cached row without a stored imdb_id the call goes on to
\* the title chain: it issues no lookup by id, and its first provider
\* request is the lookup by title of the cleaned title (of the request, or
\* of the row when the request has none).
C26_StaleWithoutIdUsesTitle ==
    \A i \in WithRow :
        LET c == RowOf(i)
            m == movies[i]
        IN  ( /\ isDataStale(c.release_date, c.updated_at, proc[i].at)
              /\ c.imdb_id = "" )
            => /\ proc[i].pc # "byId"
               /\ ~HasAnswer(i, "byId")
               /\ proc[i].reqs # <<>>
               /\ proc[i].reqs[1].kind = "t"
               /\ m.title # <<>>
                  => proc[i].reqs[1] = Req("t", NormalizeTitle(m.title), "")
               /\ m.title = <<>> => proc[i].reqs[1] = Req("t", c.title, "")
               /\ m.title = T_Heat => proc[i].reqs[1] = Req("t", S_Heat, "")
               /\ proc[i].pc = "done"
                  => proc[i].result.source \notin {"cache", "cache-stale",
                                                   "api-refresh"}

\* a stale row without imdb_id and a request for "Heat (1995)": the lookup
\* by title of "Heat" is under way
C26_Witness ==
    \E i \in WithRow :
        /\ RowOf(i).imdb_id = ""
        /\ isDataStale(RowOf(i).release_date, RowOf(i).updated_at, proc[i].at)
        /\ movies[i].title = T_Heat
        /\ proc[i].pc = "title"
        /\ proc[i].reqs = <<Req("t", S_Heat, "")>>

\* what the cleaning makes of the titles of the examples
CleanedTitles ==
    {<<T_Up, T_Up>>, <<T_Heat, S_Heat>>, <<T_AlienDC, S_Alien>>,
     <<T_OnlyDC, T_OnlyDC>>, <<T_OnlyParen, T_OnlyParen>>,
     <<T_AlienParenDC, S_Alien>>, <<T_DCParen, T_OnlyDC>>,
     <<T_HeatTwo, S_HeatParen>>, <<T_UpDCDC, S_UpDC>>,
     <<T_ParenDC, T_OnlyParen>>, <<T_UpSpaced, T_Up>>,
     <<T_HeatNested, S_Heat>>, <<T_Fast, T_Fast>>, <<T_UpPart, T_UpPart>>}

\* s occurs in t as a run of consecutive characters
IsPartOf(s, t) ==
    \E k \in 0..(Len(t) - Len(s)) : SubSeq(t, k + 1, k + Len(s)) = s

\* C27: the title is cleaned once and in order: first a trailing
\* "Director's Cut" (in any case) is taken off, then one trailing group in
\* parentheses or brackets, each only when something is left; the cleaned
\* title of a non-empty title is never empty.  ("Alien (1979) Director's Cut"
\* gives "Alien", "Heat (1995) [4K]" gives "Heat (1995)", "Up Director's Cut
\* Director's Cut" gives "Up Director's Cut", "Director's Cut" and "(2024)"
\* stay.)
C27_TitleCleanedOnceInOrder ==
    \A i \in 1..Len(proc) :
        (movies[i].href # "" /\ movies[i].title # <<>>)
        => /\ proc[i].title # <<>>
           /\ IsPartOf(proc[i].title, movies[i].title)
           /\ proc[i].reqs # <<>>
           /\ proc[i].reqs[1] = Req("t", proc[i].title, "")
           /\ \A pair \in CleanedTitles :
                 movies[i].title = pair[1] => proc[i].title = pair[2]
           /\ proc[i].title # Trim(movies[i].title)
              => \/ DirectorsCutTest(movies[i].title)
                 \/ Trim(movies[i].title)[Len(Trim(movies[i].title))]
                      \in {")", "]"}

\* "Alien (1979) Director's Cut" looked up as "Alien"
C27_Witness ==
    \E i \in 1..Len(proc) :
        /\ movies[i].title = T_AlienParenDC
        /\ proc[i].title = S_Alien
        /\ proc[i].reqs[1] = Req("t", S_Alien, "")
        /\ proc[i].pc = "done"

\* C28: fetchOMDbSearch issues the search request; when the answer to it is
\* not successful or lists no candidate it returns null without a second
\* request; otherwise it issues exactly one detail request, for the id of
\* the first candidate, and returns the detail payload iff the detail
\* response is successful, null otherwise; nothing is asked twice.
C28_SearchThenOneDetail ==
    [][ \A ans \in SearchAnswers(ChainPayloads) :
           ( /\ Len(proc) = 1
             /\ proc[1].pc \in {"search", "split"}
             /\ Answer(1, ans) )
           => LET before  == Len(proc[1].reqs)
                  added   == SubSeq(proc'[1].reqs, before + 1,
                                    Len(proc'[1].reqs))
                  details == {k \in 1..Len(added) : added[k].kind = "i"}
                  a       == proc'[1].answers[Len(proc'[1].answers)]
              IN  /\ proc[1].reqs[before].kind = "s"
                  /\ ans.list # "hit"
                     => /\ details = {}
                        /\ a.value = Null
                        /\ a.throws <=> ans.list = "throw"
                  /\ ans.list = "hit"
                     => /\ details = {1}
                        /\ added[1] = Req("i", <<>>, ans.id)
                        /\ a.value # Null <=> ans.detail.kind = "hit"
                        /\ ans.detail.kind = "hit" => a.value = ans.detail.data
                        /\ a.throws <=> ans.detail.kind = "throw" ]_vars

\* a search that listed a candidate whose detail response was not
\* successful: three requests in all, and not found
C28_Witness ==
    \E i \in 1..Len(proc) :
        /\ Len(proc[i].answers) = 2
        /\ proc[i].answers[2].step = "search"
        /\ ~proc[i].answers[2].throws
        /\ proc[i].answers[2].value = Null
        /\ Len(proc[i].reqs) = 3
        /\ proc[i].reqs[2].kind = "s"
        /\ proc[i].reqs[3].kind = "i"
        /\ proc[i].pc = "done"
        /\ proc[i].result = ErrorResult(movies[i].href, "OMDb Not Found")

\* the call returned the cached row or an error
FromCacheOrError(i) ==
    /\ proc[i].pc = "done"
    /\ \/ proc[i].result.source \in {"cache", "cache-stale"}
       \/ proc[i].result.data = Null

\* every record of updates is the record of an item that was not answered
\* from the cache or with an error, and a batch with only such items has
\* nothing to write and has written nothing
UpdatesOnlyFromResolved ==
    /\ \A k \in 1..Len(updates) :
          \E i \in 1..Len(proc) :
              /\ ~FromCacheOrError(i)
              /\ proc[i].pc = "done"
              /\ proc[i].result.data = updates[k]
    /\ (\A i \in 1..Len(proc) : FromCacheOrError(i))
       => /\ updates = <<>>
          /\ statements = <<>>
          /\ dbWrites = 0

\* C29: items answered with source 'cache' or 'cache-stale' or with an error
\* put nothing into the store write: after every step of the worker every
\* record of updates is the record of an item resolved otherwise and a batch
\* with only such items has issued no write; a step that changes the table
\* belongs to a batch with an item resolved otherwise; and no step removes a
\* row from the table.
C29_CacheAndErrorsWriteNothing ==
    [][ /\ UpdatesOnlyFromResolved'
        /\ store' # store
           => \E i \in 1..Len(proc) : ~FromCacheOrError(i)
        /\ \A h \in Hrefs : store[h] # Null => store'[h] # Null ]_vars

\* a second batch of two items, one answered with the stale row and one with
\* an error, answered without a write
C29_Witness ==
    /\ pc = "responded"
    /\ response.status = 200
    /\ batches >= 1
    /\ Len(proc) = 2
    /\ proc[1].result.source = "cache-stale"
    /\ proc[2].result.data = Null
    /\ dbWrites = 0
    /\ statements = <<>>

\* C30: an item without a key is not used: its (empty) key is not among the
\* keys of the SELECT, so a batch of such items reads nothing; its call
\* returns at once with an error and no data, issues no provider request and
\* puts no record into the store write.
C30_ItemWithoutKeyIsDropped ==
    /\ "" \notin DOMAIN cachedMap
    /\ \A k \in 1..Len(updates) : updates[k].prime_href # ""
    /\ \A i \in 1..Len(proc) :
          movies[i].href = ""
          => /\ proc[i].pc = "done"
             /\ proc[i].reqs = <<>>
             /\ proc[i].answers = <<>>
             /\ proc[i].result.data = Null
             /\ proc[i].result = ErrorResult("", "Missing href")
    /\ (\A i \in 1..Len(movies) : movies[i].href = "")
       => /\ dbReads = 0
          /\ dbWrites = 0
          /\ statements = <<>>
          /\ cachedMap = <<>>

\* a batch of two items without key, answered with two errors and without
\* touching the table
C30_Witness ==
    /\ pc = "responded"
    /\ response.status = 200
    /\ Len(movies) = 2
    /\ \A i \in 1..2 : movies[i].href = ""
    /\ \A i \in 1..2 : response.results[i] = ErrorResult("", "Missing href")
    /\ dbReads = 0
    /\ dbWrites = 0

\* the place of an await in the order of processMovieLogic
StepRank(step) ==
    CASE step = "byId"   -> 0
      [] step = "title"  -> 1
      [] step = "amp"    -> 2
      [] step = "search" -> 3
      [] step = "split"  -> 4

RequestsOfKind(i, kind) ==
    {k \in 1..Len(proc[i].reqs) : proc[i].reqs[k].kind = kind}

\* C31: a call issues a bounded number of provider requests whatever the
\* provider answers: none when it answers from a fresh row, exactly one on
\* the refresh by id of a stale row, and at most 6 on the title chain (one
\* lookup by title, one ampersand retry, two for the search, two for the
\* split search); the awaits are passed in order and none is repeated.
C31_BoundedRequests ==
    \A i \in 1..Len(proc) :
        LET c == Cached(cachedMap, movies[i].href)
            n == Len(proc[i].answers)
        IN  /\ Len(proc[i].reqs) <= 6
            /\ Cardinality(RequestsOfKind(i, "t")) <= 2
            /\ Cardinality(RequestsOfKind(i, "s")) <= 2
            /\ Cardinality(RequestsOfKind(i, "i")) <= 2
            /\ \A k, l \in 1..Len(proc[i].reqs) :
                  (k < l /\ proc[i].reqs[k].kind # "i")
                  => proc[i].reqs[k] # proc[i].reqs[l]
            /\ \A k, l \in 1..n :
                  k < l => StepRank(proc[i].answers[k].step)
                             < StepRank(proc[i].answers[l].step)
            /\ proc[i].pc # "done"
               => \A k \in 1..n : StepRank(proc[i].answers[k].step)
                                    < StepRank(proc[i].pc)
            /\ ReturnedFromCache(i) => proc[i].reqs = <<>>
            /\ ( /\ c # Null
                 /\ movies[i].href # ""
                 /\ isDataStale(c.release_date, c.updated_at, proc[i].at)
                 /\ c.imdb_id # "" )
               => Len(proc[i].reqs) = 1
            /\ (n >= 1 /\ proc[i].answers[1].step = "byId")
               => n = 1 /\ proc[i].pc = "done"

\* "Fast & Furious" with a verification rating, resolved with six requests
C31_Witness ==
    \E i \in 1..Len(proc) :
        /\ proc[i].title = T_Fast
        /\ proc[i].pc = "done"
        /\ Len(proc[i].reqs) = 6
        /\ Len(proc[i].answers) = 4
        /\ proc[i].result.source = "api"

\* ------------------------------------------------------------------------
\* Two sibling items of one batch, resolved concurrently
\* ------------------------------------------------------------------------
OrderMovies ==
    {Movie("h1", T_Up, "", Absent),
     Movie("h1", S_Heat, "", Absent),
     Movie("h2", T_Up, "", Absent)}

OrderPayloads ==
    {P70, P85}

OrderStores ==
    {[h \in Hrefs |-> IF h = "h1" THEN r ELSE Null] :
        r \in {Null, SeedStale("h1")}}

InitOrder ==
    InitWith(OrderStores)

NextOrder ==
    \/ \E m1, m2 \in OrderMovies :
          batches = 0 /\ Fetch(ArrayBody(<<m1, m2>>), TRUE)
    \/ \E i \in 1..2 : AnswerFetch(i, OrderPayloads)
    \/ \E i \in 1..2 : AnswerSearch(i, OrderPayloads)
    \/ Save(TRUE)
    \/ Return

SpecOrder ==
    InitOrder /\ [][NextOrder]_vars

\* the upserts of the batch, taken in the order perm
Reordered(stmts, perm) ==
    [k \in 1..Len(stmts) |-> stmts[perm[k]]]

\* C32: the table after the write of a batch is the same whatever the
\* order in which the sibling calls completed, i.e. whatever the order in
\* which their records were pushed to updates.
C32_StoreIndependentOfCompletionOrder ==
    [][ ( /\ pc = "resolving"
          /\ pc' = "responded"
          /\ response'.status = 200 )
        => \A perm \in Permutations(1..Len(updates)) :
              store' = ApplyBatch(store, Reordered(updates, perm)) ]_vars

\* C33: the results array of a 200 response has one entry per input item,
\* in input order, each entry being the outcome of the call for that item
\* and carrying its href, whatever the order in which the calls completed.
C33_ResultsInInputOrder ==
    (pc = "responded" /\ response.status = 200)
    => /\ Len(response.results) = Len(movies)
       /\ \A k \in 1..Len(movies) :
             /\ response.results[k] = proc[k].result
             /\ response.results[k].href = movies[k].href

\* the second item completed before the first, and the entries are in input
\* order all the same
C33_Witness ==
    /\ pc = "responded"
    /\ response.status = 200
    /\ Len(movies) = 2
    /\ movies[1].href = "h1"
    /\ movies[2].href = "h2"
    /\ Len(updates) = 2
    /\ updates[1].prime_href = "h2"
    /\ updates[2].prime_href = "h1"
    /\ response.results[1].href = "h1"
    /\ response.results[2].href = "h2"

\* ------------------------------------------------------------------------
\* The content script: batching, badges and the rating filter
\* ------------------------------------------------------------------------
MaxMessages ==
    3

MaxFrames ==
    1

\* the state of the content script and of the DOM it writes, as one record
Page ==
    [isDetailPage |-> isDetailPage,
     currentThreshold |-> currentThreshold,
     currentRtThreshold |-> currentRtThreshold,
     processedItems |-> processedItems,
     sessionCache |-> sessionCache,
     pendingContainers |-> pendingContainers,
     processedAttr |-> processedAttr,
     filterAttr |-> filterAttr,
     badged |-> badged,
     sentMessages |-> sentMessages,
     answered |-> answered,
     frames |-> frames]

SetPage(st) ==
    /\ isDetailPage' = st.isDetailPage
    /\ currentThreshold' = st.currentThreshold
    /\ currentRtThreshold' = st.currentRtThreshold
    /\ processedItems' = st.processedItems
    /\ sessionCache' = st.sessionCache
    /\ pendingContainers' = st.pendingContainers
    /\ processedAttr' = st.processedAttr
    /\ filterAttr' = st.filterAttr
    /\ badged' = st.badged
    /\ sentMessages' = st.sentMessages
    /\ answered' = st.answered
    /\ frames' = st.frames

\* data of a results entry as the content script reads it: rating in
\* tenths, rt_rating as the text the worker stored
PageData(rating, rt) ==
    [rating |-> rating, rt_rating |-> rt]

\* parseInt(rtRating.replace('%', '')) || 0
RtValue(rt) ==
    CASE rt = "40%" -> 40
      [] rt = "98%" -> 98
      [] OTHER -> 0

\* lines 956-973 and 1226-1234: below the IMDb threshold, or below the RT
\* threshold when there is an RT rating
ShouldHide(rating, rt, threshold, rtThreshold) ==
    \/ threshold > 0 /\ rating > 0 /\ rating < threshold
    \/ rtThreshold > 0 /\ rt # "" /\ RtValue(rt) < rtThreshold

hideCard(st, c) ==
    IF HasLi(c) THEN [st EXCEPT !.filterAttr[c] = TRUE] ELSE st

restoreCard(st, c) ==
    IF HasLi(c) /\ st.filterAttr[c]
    THEN [st EXCEPT !.filterAttr[c] = FALSE]
    ELSE st

checkAndHideCard(st, c, rating, rt) ==
    IF c \in EXCLUDED_FROM_FILTER THEN st
    ELSE IF ShouldHide(rating, rt, st.currentThreshold, st.currentRtThreshold)
         THEN hideCard(st, c)
         ELSE restoreCard(st, c)

\* lines 1003-1057, with state.showImdb at its default
injectBadge(st, c, data) ==
    IF c = "atf" THEN st
    ELSE IF st.badged[c] THEN st
    ELSE [checkAndHideCard(st, c, data.rating, data.rt_rating)
            EXCEPT !.badged[c] = TRUE]

\* lines 1068-1076 for the containers waiting under the href of item
RECURSIVE ForEachContainer(_, _, _)
ForEachContainer(st, cs, item) ==
    IF cs = {} THEN st
    ELSE LET c == CHOOSE x \in cs : TRUE
             st1 == IF item.data # Null
                    THEN [injectBadge(st, c, item.data) EXCEPT
                            !.processedAttr[c] = "success",
                            !.sessionCache[item.href] = item.data]
                    ELSE [st EXCEPT !.processedAttr[c] = "no-data"]
         IN  ForEachContainer(st1, cs \ {c}, item)

RECURSIVE handleBatchResponse(_, _)
handleBatchResponse(st, results) ==
    IF results = <<>> THEN st
    ELSE LET item == Head(results)
             cs == st.pendingContainers[item.href]
         IN  IF cs = {} THEN handleBatchResponse(st, Tail(results))
             ELSE handleBatchResponse(
                      [ForEachContainer(st, cs, item)
                         EXCEPT !.pendingContainers[item.href] = {}],
                      Tail(results))

\* lines 1114-1121: the chunk failed, its items are given back for a retry
RECURSIVE ReleaseChunk(_, _)
ReleaseChunk(st, chunk) ==
    IF chunk = <<>> THEN st
    ELSE LET h == Head(chunk).href
             pending == st.pendingContainers[h]
         IN  ReleaseChunk(
                 [st EXCEPT
                    !.processedAttr = [c \in Containers |->
                                         IF c \in pending THEN NoAttr ELSE @[c]],
                    !.pendingContainers[h] = {},
                    !.processedItems = @ \ {h}],
                 Tail(chunk))

\* lines 1090-1097
RECURSIVE MarkPending(_, _)
MarkPending(st, batch) ==
    IF batch = <<>> THEN st
    ELSE LET c == Head(batch)
             h == extractInfo(c, st.isDetailPage).href
         IN  MarkPending([st EXCEPT !.pendingContainers[h] = @ \cup {c},
                                    !.processedAttr[c] = "pending",
                                    !.processedItems = @ \cup {h}],
                         Tail(batch))

\* lines 1099-1101
RECURSIVE Chunks(_)
Chunks(payload) ==
    IF payload = <<>> THEN <<>>
    ELSE IF Len(payload) <= CHUNK_SIZE THEN <<[type |-> "BATCH_LOOKUP",
                                               movies |-> payload]>>
    ELSE <<[type |-> "BATCH_LOOKUP", movies |-> SubSeq(payload, 1, CHUNK_SIZE)]>>
         \o Chunks(SubSeq(payload, CHUNK_SIZE + 1, Len(payload)))

sendBatch(st, batch) ==
    LET payload == [k \in 1..Len(batch) |-> extractInfo(batch[k], st.isDetailPage)]
        st1 == MarkPending(st, batch)
    IN  [st1 EXCEPT !.sentMessages = @ \o Chunks(payload)]

\* lines 1138-1180
RECURSIVE RowLoop(_, _, _, _)
RowLoop(st, items, currentBatch, batchSize) ==
    IF items = <<>>
    THEN IF currentBatch # <<>> THEN sendBatch(st, currentBatch) ELSE st
    ELSE LET item == Head(items)
             info == extractInfo(item, st.isDetailPage)
             isHeroVerification == /\ info.verificationRating # ""
                                   /\ info.year # ""
                                   /\ st.isDetailPage
             cached == st.sessionCache[info.href]
             batch == Append(currentBatch, item)
         IN  IF st.processedAttr[item] # NoAttr
             THEN RowLoop(st, Tail(items), currentBatch, batchSize)
             ELSE IF info.href \in st.processedItems /\ ~isHeroVerification
             THEN IF cached # Null
                  THEN RowLoop([injectBadge(st, item, cached) EXCEPT
                                  !.processedAttr[item] = "cache-hit"],
                               Tail(items), currentBatch, batchSize)
                  ELSE RowLoop([st EXCEPT
                                  !.pendingContainers[info.href] = @ \cup {item},
                                  !.processedAttr[item] = "pending-queue"],
                               Tail(items), currentBatch, batchSize)
             ELSE IF Len(batch) >= batchSize
             THEN RowLoop(sendBatch(st, batch), Tail(items), <<>>, batchSize)
             ELSE RowLoop(st, Tail(items), batch, batchSize)

processRowItems(st, row) ==
    RowLoop(st, row.items, <<>>, row.batchSize)

\* lines 1212-1243: what reapplyAllFilters hands to requestAnimationFrame
reapplyAllFilters(st) ==
    LET listed == {c \in Containers :
                      /\ st.processedAttr[c] # NoAttr
                      /\ st.sessionCache[extractInfo(c, st.isDetailPage).href] # Null
                      /\ HasLi(c)}
        hide(c) == LET cached == st.sessionCache[extractInfo(c, st.isDetailPage).href]
                   IN  ShouldHide(cached.rating, cached.rt_rating,
                                  st.currentThreshold, st.currentRtThreshold)
    IN  [toHide |-> {c \in listed : hide(c) /\ ~st.filterAttr[c]},
         toRestore |-> {c \in listed : ~hide(c) /\ st.filterAttr[c]}]

\* the rows the IntersectionObserver reports: a carousel with two cards of
\* one title, a card on its own, and the hero of the page (calculateBatchSize
\* gives 1 for a hero, at least 4 otherwise)
Rows ==
    {[items |-> <<"card1", "card2">>, batchSize |-> 4],
     [items |-> <<"card3">>, batchSize |-> 10],
     [items |-> <<IF isDetailPage THEN "atf" ELSE "hero">>, batchSize |-> 1]}

PageSettings ==
    {[minRating |-> 0, minRt |-> 0],
     [minRating |-> 70, minRt |-> 0],
     [minRating |-> 0, minRt |-> 50]}

ResultData ==
    {PageData(60, "40%"), PageData(80, ""), Null}

\* what the service worker can hand to the callback of a message: results
\* with one entry per item of the chunk, or an error
Responses(message) ==
    {[success |-> TRUE, error |-> "",
      results |-> [k \in 1..Len(message.movies) |->
                     [href |-> message.movies[k].href, data |-> d[k]]]] :
        d \in [1..Len(message.movies) -> ResultData]}
    \cup {[success |-> FALSE, error |-> "Worker Error 500", results |-> <<>>]}

\* the IntersectionObserver or the MutationObserver of a row fires
ProcessRow ==
    \E row \in Rows :
        LET st == processRowItems(Page, row)
        IN  /\ st # Page
            /\ Len(st.sentMessages) <= MaxMessages
            /\ SetPage(st)
            /\ UNCHANGED <<workerVars, calls>>

\* lines 1108-1123: the callback of the k-th message is invoked
Callback(k) ==
    /\ k \in 1..Len(sentMessages)
    /\ k \notin answered
    /\ \E resp \in Responses(sentMessages[k]) :
          LET st == IF resp.success
                    THEN handleBatchResponse(Page, resp.results)
                    ELSE ReleaseChunk(Page, sentMessages[k].movies)
          IN  SetPage([st EXCEPT !.answered = @ \cup {k}])
    /\ UNCHANGED <<workerVars, calls>>

\* lines 1375-1392: APPLY_SETTINGS arrives from the popup
ApplySettings ==
    \E s \in PageSettings :
        /\ Len(frames) < MaxFrames
        /\ LET st == [Page EXCEPT !.currentThreshold = s.minRating,
                                  !.currentRtThreshold = s.minRt]
           IN  SetPage([st EXCEPT !.frames = Append(@, reapplyAllFilters(st))])
        /\ UNCHANGED <<workerVars, calls>>

\* lines 1245-1257: the animation frame callback runs
Frame ==
    /\ frames # <<>>
    /\ filterAttr' = [c \in Containers |->
                        IF c \in Head(frames).toRestore THEN FALSE
                        ELSE IF c \in Head(frames).toHide THEN TRUE
                        ELSE filterAttr[c]]
    /\ frames' = Tail(frames)
    /\ UNCHANGED <<isDetailPage, currentThreshold, currentRtThreshold,
                   processedItems, sessionCache, pendingContainers,
                   processedAttr, badged, sentMessages, answered>>
    /\ UNCHANGED <<workerVars, calls>>

\* the settings are the stored ones (loadSettings, lines 1361-1373)
InitPage ==
    /\ WorkerInit({[h \in Hrefs |-> Null]})
    /\ BackgroundIdle
    /\ isDetailPage \in BOOLEAN
    /\ \E s \in PageSettings :
          /\ currentThreshold = s.minRating
          /\ currentRtThreshold = s.minRt
    /\ processedItems = {}
    /\ sessionCache = [h \in Hrefs |-> Null]
    /\ pendingContainers = [h \in Hrefs |-> {}]
    /\ processedAttr = [c \in Containers |-> NoAttr]
    /\ filterAttr = [c \in Containers |-> FALSE]
    /\ badged = [c \in Containers |-> FALSE]
    /\ sentMessages = <<>>
    /\ answered = {}
    /\ frames = <<>>

NextPage ==
    \/ ProcessRow
    \/ \E k \in 1..MaxMessages : Callback(k)
    \/ ApplySettings
    \/ Frame

SpecPage ==
    InitPage /\ [][NextPage]_vars

\* every callback is eventually invoked
SpecPageFair ==
    SpecPage /\ \A k \in 1..MaxMessages : WF_vars(Callback(k))

\* the hrefs of the items of a message
HrefsOf(message) ==
    {message.movies[j].href : j \in 1..Len(message.movies)}

\* an item the detail-page hero sends again with its verification data
ForcedResend(item) ==
    item.verificationRating # "" /\ item.year # ""

\* a result for the href has been shown on some container
Resolved(h) ==
    \E c \in Containers :
        /\ extractInfo(c, isDetailPage).href = h
        /\ processedAttr[c] \in {"success", "no-data", "cache-hit"}

\* C34: a payload never holds one href twice, and an item other than the
\* forced re-send of the detail-page hero is never sent for an href that
\* was resolved or that an earlier message still waits for.
C34_NoDoubleQueueing ==
    [][ \A k \in (Len(sentMessages) + 1)..Len(sentMessages') :
           LET payload == sentMessages'[k].movies
           IN  /\ \A i, j \in 1..Len(payload) :
                     i # j => payload[i].href # payload[j].href
               /\ \A j \in 1..Len(payload) :
                     ~ForcedResend(payload[j])
                     => /\ ~Resolved(payload[j].href)
                        /\ \A m \in 1..(k - 1) :
                              m \notin answered
                              => payload[j].href \notin HrefsOf(sentMessages'[m])
      ]_vars

Waiting(c) ==
    processedAttr[c] \in {"pending", "pending-queue"}

\* C35: when every callback is eventually invoked, a container marked
\* 'pending' or 'pending-queue' eventually becomes 'success' or 'no-data'
\* or loses its processed attribute.
C35_PendingEventuallyLeaves ==
    \A c \in Containers :
        Waiting(c) ~> processedAttr[c] \in {"success", "no-data", NoAttr}

\* C36: the list item of a container matching EXCLUDED_FROM_FILTER is
\* never marked hidden, whatever badges are injected and whatever settings
\* are applied.
C36_ExcludedNeverHidden ==
    \A c \in EXCLUDED_FROM_FILTER : ~filterAttr[c]

\* ------------------------------------------------------------------------
\* The background service worker
\* ------------------------------------------------------------------------
MaxCalls ==
    2

\* message.movies: an array (empty or not), a value that is no array, or
\* no field at all
BgArray(items) ==
    [kind |-> "array", items |-> items]

BgNotArray ==
    [kind |-> "notArray", items |-> <<>>]

BgAbsent ==
    [kind |-> "absent", items |-> <<>>]

BgMessages ==
    {[type |-> "BATCH_LOOKUP", movies |-> m] :
        m \in {BgArray(<<>>), BgArray(<<"h1">>), BgNotArray, BgAbsent}}
    \cup {[type |-> "PING", movies |-> BgAbsent]}

\* what the fetch of WORKER_URL/batch settles to: a rejection, or a
\* Response with its ok flag and status
FetchRejected ==
    [rejected |-> TRUE, ok |-> FALSE, status |-> 0]

HttpResponse(status) ==
    [rejected |-> FALSE, ok |-> status = 200, status |-> status]

FetchOutcomes ==
    {FetchRejected, HttpResponse(200), HttpResponse(400), HttpResponse(500)}

\* what response.text() settles to on a non-OK response
TextOutcomes ==
    {[throws |-> TRUE, text |-> ""],
     [throws |-> FALSE, text |-> ""],
     [throws |-> FALSE, text |-> "Internal server error"]}

\* what response.json() settles to: a SyntaxError, the JSON value null, or
\* an object with or without a results field; the field holds an array or
\* null
JsonThrows ==
    [kind |-> "throws", hasResults |-> FALSE, results |-> Null]

JsonNull ==
    [kind |-> "null", hasResults |-> FALSE, results |-> Null]

JsonObject(hasResults, results) ==
    [kind |-> "object", hasResults |-> hasResults, results |-> results]

JsArray(items) ==
    [array |-> items]

JsonOutcomes ==
    {JsonThrows, JsonNull, JsonObject(FALSE, Null), JsonObject(TRUE, Null),
     JsonObject(TRUE, JsArray(<<>>)), JsonObject(TRUE, JsArray(<<"entry">>))}

\* the arguments handed to sendResponse
SuccessResponse(results) ==
    [success |-> TRUE, results |-> results, error |-> <<>>]

FailureResponse(message) ==
    [success |-> FALSE, results |-> Null, error |-> message]

UnknownTypeResponse ==
    [error |-> <<"Unknown message type">>]

\* a handleBatchLookup call: the message, where it waits, what its awaits
\* settled to, and the sendResponse calls it has made
NewCall(message, at, sent) ==
    [message |-> message, pc |-> at, fetched |-> Null, body |-> Null,
     sent |-> sent]

\* lines 126-134 without the test of data.results: reading data.results
\* throws for null, and a missing field is answered as a success
AfterJson_NoResultsCheck(body) ==
    IF body.kind = "throws"
    THEN FailureResponse(<<"Unexpected token">>)
    ELSE IF body.kind = "null"
    THEN FailureResponse(<<"Cannot read properties of null">>)
    ELSE SuccessResponse(body.results)

\* lines 126-138: response.json() has settled
AfterJson(body) ==
    IF body.kind = "throws"
    THEN FailureResponse(<<"Unexpected token">>)
    ELSE IF body.kind = "null" \/ ~body.hasResults \/ body.results = Null
    THEN FailureResponse(<<"Worker returned invalid response data">>)
    ELSE SuccessResponse(body.results)

\* lines 84-114: the listener receives a message; handleBatchLookup runs up
\* to its fetch
OnMessage ==
    \E message \in BgMessages :
        /\ Len(calls) < MaxCalls
        /\ calls' = Append(calls,
              IF message.type # "BATCH_LOOKUP"
              THEN NewCall(message, "done", <<UnknownTypeResponse>>)
              ELSE IF message.movies.kind # "array"
              THEN NewCall(message, "done",
                           <<FailureResponse(<<"Invalid movies payload">>)>>)
              ELSE NewCall(message, "fetch", <<>>))
        /\ UNCHANGED <<workerVars, pageVars>>

\* lines 108-126: the fetch settles
FetchSettles(i) ==
    /\ i \in 1..Len(calls)
    /\ calls[i].pc = "fetch"
    /\ \E r \in FetchOutcomes :
          calls' = [calls EXCEPT ![i] =
              IF r.rejected
              THEN [@ EXCEPT !.fetched = r, !.pc = "done",
                             !.sent = Append(@, FailureResponse(<<"Failed to fetch">>))]
              ELSE IF ~r.ok
              THEN [@ EXCEPT !.fetched = r, !.pc = "text"]
              ELSE [@ EXCEPT !.fetched = r, !.pc = "json"]]
    /\ UNCHANGED <<workerVars, pageVars>>

\* lines 116-124 and 136-139: response.text() settles on a non-OK response
TextSettles(i) ==
    /\ i \in 1..Len(calls)
    /\ calls[i].pc = "text"
    /\ \E t \in TextOutcomes :
          calls' = [calls EXCEPT ![i] =
              [@ EXCEPT !.pc = "done",
                        !.sent = Append(@, FailureResponse(
                            <<"Worker Error", calls[i].fetched.status, t.text>>))]]
    /\ UNCHANGED <<workerVars, pageVars>>

\* lines 126-139: response.json() settles
JsonSettles(i) ==
    /\ i \in 1..Len(calls)
    /\ calls[i].pc = "json"
    /\ \E body \in JsonOutcomes :
          calls' = [calls EXCEPT ![i] =
              [@ EXCEPT !.body = body, !.pc = "done",
                        !.sent = Append(@, AfterJson(body))]]
    /\ UNCHANGED <<workerVars, pageVars>>

InitBackground ==
    /\ WorkerInit({[h \in Hrefs |-> Null]})
    /\ PageIdle
    /\ BackgroundIdle

NextBackground ==
    \/ OnMessage
    \/ \E i \in 1..MaxCalls : FetchSettles(i)
    \/ \E i \in 1..MaxCalls : TextSettles(i)
    \/ \E i \in 1..MaxCalls : JsonSettles(i)

SpecBackground ==
    InitBackground /\ [][NextBackground]_vars

====
